---- MODULE Spec2Model ----
(***************************************************************************)
(* A model of openrouter-inference-stats: the revenue reconciler           *)
(* (src/src/calculator.py), the window aggregator, the chart extractor and *)
(* the daily analytics extractor (src/src/scraper.py), the price book      *)
(* (src/src/api.py) and the backfill run (src/main.py).                    *)
(*                                                                         *)
(* Representation.                                                         *)
(*  - A slug is a sequence of one-character strings, so that split,        *)
(*    startswith, replace and lower are computed character by character.   *)
(*  - Money is an integer number of mills (1/1000 of a currency unit):     *)
(*    a unit price is in mills per token, round(x, 2) rounds to a multiple *)
(*    of 10 mills, exact halves to the even multiple as round() does.      *)
(*    Binary floating-point representation error is outside the model.     *)
(*  - A ratio is an integer number of 1/10000, as produced by round(x, 4). *)
(*  - A date string "YYYY-MM-DD" is the record [y, m, d] of its three      *)
(*    fields; strptime maps it to a proleptic Gregorian ordinal, timedelta *)
(*    is integer arithmetic on ordinals and strftime maps an ordinal back. *)
(***************************************************************************)
EXTENDS Integers, Sequences, FiniteSets, TLC

VARIABLES
    pc,            \* "call": arguments bound, "return": the result is available
    rankings,      \* calculate_revenue: list of ranked-model dicts
    activities,    \* calculate_revenue: dict slug -> activity dict
    pricing,       \* calculate_revenue: dict key -> price dict, in insertion order
    report,        \* calculate_revenue: the returned dict
    daily_data,    \* sum_daily_window: dict date -> daily totals
    end_date,      \* sum_daily_window: last date of the window
    days,          \* sum_daily_window: number of days
    skip_partial,  \* sum_daily_window: skip the current date
    today,         \* the current UTC date, read from the clock by utcnow()
    window,        \* sum_daily_window: the returned activity dict
    html,          \* scrape_rankings_history: the script segments of the page
    history,       \* scrape_rankings_history: the returned list of entries
    page,          \* _extract_daily_data: the entries of a model page, in text order
    feed,          \* fetch_model_pricing: the "data" list of the models feed
    query,         \* _find_pricing: the identifier looked up
    found,         \* _find_pricing: the returned price dict, or None
    num_weeks,     \* run_backfill: the number of weeks asked for
    all_daily_data, \* run_backfill: dict slug -> dict date -> daily totals
    fetched,       \* run_backfill: the requests made so far, in order
    snapshots,     \* run_backfill: the dates of the snapshots saved so far, in order
    readme,        \* run_backfill: whether README.md has been rewritten
    result         \* run_backfill: the returned exit code

vars == <<pc, rankings, activities, pricing, report,
          daily_data, end_date, days, skip_partial, today, window,
          html, history, page, feed, query, found,
          num_weeks, all_daily_data, fetched, snapshots, readme, result>>

revenue_vars == <<rankings, activities, pricing, report>>
window_vars == <<daily_data, end_date, days, skip_partial, today, window>>
chart_vars == <<html, history>>
page_vars == <<page>>
feed_vars == <<feed, query, found>>
backfill_vars == <<num_weeks, all_daily_data, fetched, snapshots, readme, result>>

None == [none |-> TRUE]

(***************************************************************************)
(* Python dict and list helpers                                            *)
(***************************************************************************)

\* d.get(k, default)
Get(d, k, default) == IF k \in DOMAIN d THEN d[k] ELSE default

RECURSIVE SumSeq(_)
SumSeq(s) == IF s = <<>> THEN 0 ELSE Head(s) + SumSeq(Tail(s))

RECURSIVE SumOver(_, _)
\* the sum of f[x] over the finite set S
SumOver(f, S) ==
    IF S = {} THEN 0
    ELSE LET x == CHOOSE y \in S : TRUE IN f[x] + SumOver(f, S \ {x})

\* round-half-even of num / den, den > 0
RoundDiv(num, den) ==
    LET q == num \div den
        r == num % den
    IN  IF 2 * r < den THEN q
        ELSE IF 2 * r > den THEN q + 1
        ELSE IF q % 2 = 0 THEN q ELSE q + 1

\* round(x, 2) of an amount x in mills: a multiple of 10 mills
round2(x) == 10 * RoundDiv(x, 10)

\* round(num / den, 4) in units of 1/10000
round4(num, den) == RoundDiv(num * 10000, den)

(***************************************************************************)
(* Strings                                                                 *)
(***************************************************************************)

\* str.lower() on the characters the model uses
LowerChar(c) ==
    CASE c = "A" -> "a"
      [] c = "X" -> "x"
      [] c = "B" -> "b"
      [] OTHER -> c

lower(s) == [i \in 1..Len(s) |-> LowerChar(s[i])]

\* str.replace(a, b) for one-character a and b
replace(s, a, b) == [i \in 1..Len(s) |-> IF s[i] = a THEN b ELSE s[i]]

\* s.split(sep)[0]: the text before the first sep, all of s when there is none
SplitFirst(s, sep) ==
    LET hits == {i \in 1..Len(s) : s[i] = sep}
    IN  IF hits = {} THEN s
        ELSE SubSeq(s, 1, (CHOOSE i \in hits : \A j \in hits : i <= j) - 1)

startswith(s, p) == Len(p) <= Len(s) /\ SubSeq(s, 1, Len(p)) = p

\* set(s.split()): the maximal runs of non-blank characters
SplitSet(s) ==
    LET starts == {i \in 1..Len(s) : s[i] # " " /\ (i = 1 \/ s[i - 1] = " ")}
        ends == {j \in 1..Len(s) : s[j] # " " /\ (j = Len(s) \/ s[j + 1] = " ")}
    IN  {SubSeq(s, i, CHOOSE j \in ends : j >= i /\ \A k \in ends : k >= i => j <= k) :
            i \in starts}

(***************************************************************************)
(* calculator.py: price lookup                                             *)
(***************************************************************************)

\* the identifiers of the leaderboard and the keys of the pricing feed
SlugExact == <<"b", "/", "y">>
SlugVariant == <<"a", "/", "x", ":", "f">>
SlugDated == <<"a", "/", "x", "-", "1", "-", "2">>
Slugs == {SlugExact, SlugVariant, SlugDated}

KeyBase == <<"a", "/", "x">>
KeyLong == <<"a", "/", "x", "-", "1", "-", "2", "-", "3">>
PriceKeys == {KeyBase, KeyLong, SlugExact}

\* further identifiers and keys: the tokens of KeyPermuted are those of
\* SlugDated, KeyUpper differs from KeyLong in the case of the provider, and
\* SlugSeven shares its seven tokens with the ten of KeyTen
KeyPermuted == <<"a", "/", "x", "-", "2", "-", "1">>
KeyUpper == <<"A", "/", "x", "-", "1", "-", "2", "-", "3">>
SlugSeven == <<"a", "/", "x", "-", "1", "-", "2", "-", "3", "-", "4", "-", "5", "-", "6">>
KeyTen ==
    <<"a", "/", "x", "-", "1", "-", "2", "-", "3", "-", "4", "-", "5", "-", "6",
      "-", "7", "-", "8", "-", "9">>
LookupStrings == {KeyPermuted, KeyUpper, SlugSeven, KeyTen}

\* set(a.lower().replace("-", " ").replace(".", " ").split())
SlugTokens(a) == SplitSet(replace(replace(lower(a), "-", " "), ".", " "))

\* SlugTokens, computed once for each string of the model
SlugParts == [a \in Slugs \cup PriceKeys \cup LookupStrings |-> SlugTokens(a)]

\* the quotient len(intersection) / len(union) as the pair <<num, den>>
_slug_similarity(a, b) ==
    LET a_parts == SlugParts[a]
        b_parts == SlugParts[b]
    IN  IF a_parts = {} \/ b_parts = {} THEN <<0, 1>>
        ELSE <<Cardinality(a_parts \cap b_parts),
               Cardinality(a_parts \cup b_parts)>>

\* the threshold 0.7 as the quotient ThresholdNum / ThresholdDen
ThresholdNum == 7
ThresholdDen == 10

AtOrAboveThreshold(q) == ThresholdDen * q[1] >= ThresholdNum * q[2]

\* q > 0.7
AboveThreshold(q) == ThresholdDen * q[1] > ThresholdNum * q[2]

\* slug in pricing / pricing[slug]
HasKey(p, k) == \E i \in 1..Len(p) : p[i].key = k
Lookup(p, k) == p[CHOOSE i \in 1..Len(p) : p[i].key = k].value

_find_pricing(slug, p) ==
    LET base_slug == SplitFirst(slug, ":")
        provider == Append(SplitFirst(slug, "/"), "/")
        partial == {i \in 1..Len(p) :
                       /\ startswith(p[i].key, provider)
                       /\ AboveThreshold(_slug_similarity(slug, p[i].key))}
    IN  IF HasKey(p, slug) THEN Lookup(p, slug)
        ELSE IF HasKey(p, base_slug) THEN Lookup(p, base_slug)
        ELSE IF partial # {}
             THEN p[CHOOSE i \in partial : \A j \in partial : i <= j].value
        ELSE None

(***************************************************************************)
(* calculator.py: calculate_revenue                                        *)
(***************************************************************************)

\* lines 54-59: the activity of a slug, every absent field read as 0
ObservedTokens(slug, acts) ==
    LET activity == Get(acts, slug, <<>>)
    IN  [prompt_tokens     |-> Get(activity, "prompt_tokens", 0),
         completion_tokens |-> Get(activity, "completion_tokens", 0),
         reasoning_tokens  |-> Get(activity, "reasoning_tokens", 0),
         cached_tokens     |-> Get(activity, "cached_tokens", 0),
         request_count     |-> Get(activity, "request_count", 0)]

\* lines 61-76 and 125-127: the rounded ratios
Ratios(t) ==
    LET analytics_total == t.prompt_tokens + t.completion_tokens
    IN  IF analytics_total > 0
        THEN [prompt_ratio     |-> round4(t.prompt_tokens, analytics_total),
              completion_ratio |-> round4(t.completion_tokens, analytics_total),
              reasoning_ratio  |-> round4(t.reasoning_tokens, analytics_total)]
        ELSE [prompt_ratio |-> 0, completion_ratio |-> 0, reasoning_ratio |-> 0]

\* "if price_info": neither None nor an empty dict
Truthy(price_info) == price_info # None /\ DOMAIN price_info # {}

ResolvePricesAbsentCharged(price_info) ==
    IF Truthy(price_info)
    THEN [prompt_price     |-> Get(price_info, "prompt_price", 0),
          completion_price |-> Get(price_info, "completion_price", 0),
          reasoning_price  |-> Get(price_info, "reasoning_price", 0),
          cache_read_price |-> Get(price_info, "cache_read_price", 0)]
    ELSE [prompt_price |-> 1, completion_price |-> 1,
          reasoning_price |-> 1, cache_read_price |-> 0]

\* lines 81-87
ResolvePrices(price_info) ==
    IF Truthy(price_info)
    THEN [prompt_price     |-> Get(price_info, "prompt_price", 0),
          completion_price |-> Get(price_info, "completion_price", 0),
          reasoning_price  |-> Get(price_info, "reasoning_price", 0),
          cache_read_price |-> Get(price_info, "cache_read_price", 0)]
    ELSE [prompt_price |-> 0, completion_price |-> 0,
          reasoning_price |-> 0, cache_read_price |-> 0]

IsFreeNoCachePrice(price) ==
    price.prompt_price = 0 /\ price.completion_price = 0
        /\ price.cache_read_price = 0

\* line 89
IsFree(price) == price.prompt_price = 0 /\ price.completion_price = 0

RevenueOfReasoningBilled(t, price) ==
    t.prompt_tokens * price.prompt_price
        + t.completion_tokens * price.completion_price
        + t.reasoning_tokens * price.reasoning_price
        + t.cached_tokens * price.cache_read_price

\* lines 96-100
RevenueOf(t, price) ==
    t.prompt_tokens * price.prompt_price
        + t.completion_tokens * price.completion_price
        + t.cached_tokens * price.cache_read_price

ReportedTokensObserved(model, t) == t.prompt_tokens + t.completion_tokens

\* lines 50 and 118: the reported volume is the leaderboard total
ReportedTokens(model, t) == model.total_tokens

\* lines 47-134: one iteration of the loop; revenue is the unrounded amount
ModelResult(model, acts, p) ==
    LET t == ObservedTokens(model.slug, acts)
        ratio == Ratios(t)
        price == ResolvePrices(_find_pricing(model.slug, p))
        revenue == RevenueOf(t, price)
    IN  [revenue |-> revenue,
         record |->
            [rank              |-> model.rank,
             slug              |-> model.slug,
             name              |-> model.name,
             total_tokens      |-> ReportedTokens(model, t),
             percent_change    |-> Get(model, "percent_change", 0),
             prompt_tokens     |-> t.prompt_tokens,
             completion_tokens |-> t.completion_tokens,
             reasoning_tokens  |-> t.reasoning_tokens,
             cached_tokens     |-> t.cached_tokens,
             request_count     |-> t.request_count,
             prompt_ratio      |-> ratio.prompt_ratio,
             completion_ratio  |-> ratio.completion_ratio,
             reasoning_ratio   |-> ratio.reasoning_ratio,
             prompt_price      |-> price.prompt_price,
             completion_price  |-> price.completion_price,
             reasoning_price   |-> price.reasoning_price,
             cache_read_price  |-> price.cache_read_price,
             estimated_revenue |-> round2(revenue),
             is_free           |-> IsFree(price)]]

AddRevenueRounded(total, revenue) == total + round2(revenue)

\* line 107
AddRevenue(total, revenue) == total + revenue

RECURSIVE TotalRevenue(_)
\* the accumulator total_revenue after the loop over the results
TotalRevenue(results) ==
    IF results = <<>> THEN 0
    ELSE AddRevenue(TotalRevenue(SubSeq(results, 1, Len(results) - 1)),
                    results[Len(results)].revenue)

\* the position of a record in a list kept in non-increasing key order: after
\* every record whose key is not smaller (equal keys keep their order)
InsertDesc(sorted, rec) ==
    LET before == {i \in 1..Len(sorted) :
                      sorted[i].estimated_revenue >= rec.estimated_revenue}
        n == IF before = {} THEN 0
             ELSE CHOOSE i \in before : \A j \in before : j <= i
    IN  SubSeq(sorted, 1, n) \o <<rec>> \o SubSeq(sorted, n + 1, Len(sorted))

RECURSIVE SortDescFrom(_, _)
SortDescFrom(sorted, rest) ==
    IF rest = <<>> THEN sorted
    ELSE SortDescFrom(InsertDesc(sorted, Head(rest)), Tail(rest))

SortByRevenueUnsorted(records) == records

\* line 145: list.sort(key=estimated_revenue, reverse=True), a stable sort
SortByRevenue(records) == SortDescFrom(<<>>, records)

calculate_revenue(rs, acts, p) ==
    LET results == [i \in 1..Len(rs) |-> ModelResult(rs[i], acts, p)]
        records == [i \in 1..Len(rs) |-> results[i].record]
        field(name) == [i \in 1..Len(rs) |-> records[i][name]]
    IN  [models        |-> SortByRevenue(records),
         total_revenue |-> round2(TotalRevenue(results)),
         total_tokens  |-> SumSeq([i \in 1..Len(rs) |-> rs[i].total_tokens]),
         total_models  |-> Len(records),
         paid_models   |-> Cardinality({i \in 1..Len(rs) : ~records[i].is_free}),
         free_models   |-> Cardinality({i \in 1..Len(rs) : records[i].is_free}),
         token_breakdown |->
            [prompt_tokens     |-> SumSeq(field("prompt_tokens")),
             completion_tokens |-> SumSeq(field("completion_tokens")),
             reasoning_tokens  |-> SumSeq(field("reasoning_tokens")),
             cached_tokens     |-> SumSeq(field("cached_tokens"))]]

(***************************************************************************)
(* Arguments of calculate_revenue                                          *)
(***************************************************************************)

MaxModels == 2       \* longest rankings list
MaxPriceKeys == 2    \* most keys of the pricing dict
MaxTokens == 1       \* largest token count of one field of an activity

NameOf(slug) ==
    CASE slug = SlugExact -> "Y"
      [] slug = SlugVariant -> "X (free)"
      [] OTHER -> "X 1.2"

\* leaderboard volume and week-over-week change of one ranked model
Volumes == {[total_tokens |-> 0, percent_change |-> 0],
            [total_tokens |-> 9, percent_change |-> -3]}

PriceValues == {0, 6}

SeqsUpTo(S, n) == UNION {[1..k -> S] : k \in 0..n}

\* the rankings lists of one model, with every volume
RankingsOfOne ==
    {<<[rank           |-> 1,
        slug           |-> c[1],
        name           |-> NameOf(c[1]),
        total_tokens   |-> c[2].total_tokens,
        percent_change |-> c[2].percent_change]>> : c \in Slugs \X Volumes}

\* the rankings lists of at most n models in leaderboard order: the rank is
\* the position and the volume falls with the rank
RankingsUpTo(n) ==
    {[i \in 1..Len(c) |->
        [rank           |-> i,
         slug           |-> c[i],
         name           |-> NameOf(c[i]),
         total_tokens   |-> 9 * (Len(c) - i),
         percent_change |-> i - 2]] : c \in SeqsUpTo(Slugs, n)}

\* the pricing dicts of at most n keys with values in recs, in every order
PricingsUpTo(n, recs) ==
    {p \in SeqsUpTo([key : PriceKeys, value : recs], n) :
        \A i, j \in 1..Len(p) : i # j => p[i].key # p[j].key}

\* the activity dicts over the slugs of rs with values in acts
ActivitiesOf(rs, acts) ==
    UNION {[S -> acts] : S \in SUBSET {rs[i].slug : i \in 1..Len(rs)}}

\* every activity with token counts up to MaxTokens
ActsDeep ==
    [prompt_tokens : 0..MaxTokens, completion_tokens : 0..MaxTokens,
     reasoning_tokens : 0..MaxTokens, cached_tokens : 0..MaxTokens,
     request_count : {1}]

\* every price record over PriceValues
PricesDeep ==
    [prompt_price : PriceValues, completion_price : PriceValues,
     reasoning_price : PriceValues, cache_read_price : PriceValues]

ActsWide ==
    {[prompt_tokens |-> 0, completion_tokens |-> 0, reasoning_tokens |-> 0,
      cached_tokens |-> 1, request_count |-> 1],
     [prompt_tokens |-> 1, completion_tokens |-> 1, reasoning_tokens |-> 1,
      cached_tokens |-> 0, request_count |-> 2]}

PricesWide ==
    {[prompt_price |-> 0, completion_price |-> 0, reasoning_price |-> 0,
      cache_read_price |-> 6],
     [prompt_price |-> 6, completion_price |-> 6, reasoning_price |-> 6,
      cache_read_price |-> 0]}

\* one ranked model with every activity and every price record, or up to
\* MaxModels ranked models with a few of each
RevenueArgs(rs, acts, p) ==
    \/ /\ rs \in RankingsOfOne
       /\ acts \in ActivitiesOf(rs, ActsDeep)
       /\ p \in PricingsUpTo(1, PricesDeep)
    \/ /\ rs \in RankingsUpTo(MaxModels)
       /\ acts \in ActivitiesOf(rs, ActsWide)
       /\ p \in PricingsUpTo(MaxPriceKeys, PricesWide)

NoChart ==
    /\ html = <<>>
    /\ history = <<>>

NoPage == page = <<>>

NoFeed ==
    /\ feed = <<>>
    /\ query = <<>>
    /\ found = None

NoBackfill ==
    /\ num_weeks = 0
    /\ all_daily_data = <<>>
    /\ fetched = <<>>
    /\ snapshots = <<>>
    /\ readme = FALSE
    /\ result = None

NoWindow ==
    /\ daily_data = <<>>
    /\ end_date = None
    /\ days = 0
    /\ skip_partial = FALSE
    /\ today = None
    /\ window = None

InitRevenue ==
    /\ pc = "call"
    /\ RevenueArgs(rankings, activities, pricing)
    /\ report = None
    /\ NoWindow /\ NoChart /\ NoPage /\ NoFeed /\ NoBackfill

\* revenue_data = calculate_revenue(rankings, activities, pricing)
CalculateRevenue ==
    /\ pc = "call"
    /\ report' = calculate_revenue(rankings, activities, pricing)
    /\ pc' = "return"
    /\ UNCHANGED <<rankings, activities, pricing>>
    /\ UNCHANGED <<window_vars, chart_vars, page_vars, feed_vars, backfill_vars>>

NextRevenue == CalculateRevenue

SpecRevenue == InitRevenue /\ [][NextRevenue]_vars

(***************************************************************************)
(* Properties of calculate_revenue                                         *)
(***************************************************************************)

Returned == pc = "return" /\ report # None

Records == {report.models[i] : i \in 1..Len(report.models)}

\* the record emitted for the ranked model at position i of the input
RecordOf(i) == CHOOSE m \in Records : m.rank = i

\* the activities with the reasoning tokens of slug s set to r
WithReasoningTokens(acts, s, r) ==
    [acts EXCEPT ![s] = [acts[s] EXCEPT !.reasoning_tokens = r]]

\* the pricing with the reasoning price of its k-th entry set to rp
WithReasoningPrice(p, k, rp) ==
    [p EXCEPT ![k] = [p[k] EXCEPT !.value = [p[k].value EXCEPT !.reasoning_price = rp]]]

RevenueBySlot(rep) ==
    [i \in 1..Len(rep.models) |->
        <<rep.models[i].rank, rep.models[i].slug, rep.models[i].estimated_revenue>>]

\* C1: every record's estimated revenue is the rounded sum of prompt, completion
\* and cached tokens each times its resolved price, and changing one model's
\* reasoning tokens or one price record's reasoning price changes no record's
\* estimated revenue.
C1_RevenueFormula ==
    Returned =>
        /\ \A m \in Records :
              m.estimated_revenue =
                  round2(m.prompt_tokens * m.prompt_price
                         + m.completion_tokens * m.completion_price
                         + m.cached_tokens * m.cache_read_price)
        /\ \A s \in DOMAIN activities : \A r \in {0, MaxTokens + 1} :
              RevenueBySlot(calculate_revenue(
                  rankings, WithReasoningTokens(activities, s, r), pricing))
                  = RevenueBySlot(report)
        /\ \A k \in 1..Len(pricing) : \A rp \in {0, 11} :
              RevenueBySlot(calculate_revenue(
                  rankings, activities, WithReasoningPrice(pricing, k, rp)))
                  = RevenueBySlot(report)

\* a returned record with reasoning tokens, a reasoning price and a revenue
C1_Witness ==
    /\ Returned
    /\ \E m \in Records :
          /\ m.reasoning_tokens > 0 /\ m.reasoning_price > 0
          /\ m.completion_tokens > 0 /\ m.estimated_revenue > 0

\* C2: a record whose observed-token total (prompt + completion) is 0 has the
\* three ratios 0 and estimated revenue 0.
C2_ZeroObservedZeroRevenue ==
    Returned =>
        \A m \in Records :
            m.prompt_tokens + m.completion_tokens = 0 =>
                /\ m.prompt_ratio = 0
                /\ m.completion_ratio = 0
                /\ m.reasoning_ratio = 0
                /\ m.estimated_revenue = 0

\* C3: a record classified free has estimated revenue 0.
C3_FreeZeroRevenue ==
    Returned => \A m \in Records : m.is_free => m.estimated_revenue = 0

\* C4: a record is classified free exactly when its resolved prompt price and
\* completion price are both 0, the resolved prices being those of the looked-up
\* price record (0 when there is none).
C4_FreeIffPromptAndCompletionZero ==
    Returned =>
        \A i \in 1..Len(rankings) :
            LET m == RecordOf(i)
                info == _find_pricing(rankings[i].slug, pricing)
            IN  /\ m.is_free <=> (m.prompt_price = 0 /\ m.completion_price = 0)
                /\ m.prompt_price = IF info = None THEN 0 ELSE info.prompt_price
                /\ m.completion_price =
                       IF info = None THEN 0 ELSE info.completion_price

\* a free record with a cache-read price and a reasoning price
C4_Witness ==
    /\ Returned
    /\ \E m \in Records :
          m.is_free /\ m.cache_read_price > 0 /\ m.reasoning_price > 0

\* the unrounded revenue of the ranked model at position i, from the arguments
UnroundedRevenue(i) ==
    LET t == ObservedTokens(rankings[i].slug, activities)
        info == _find_pricing(rankings[i].slug, pricing)
    IN  IF info = None THEN 0
        ELSE t.prompt_tokens * info.prompt_price
                + t.completion_tokens * info.completion_price
                + t.cached_tokens * info.cache_read_price

\* C5 as stated: total_revenue is the rounded sum of the rounded per-model
\* estimated revenues of the report.
C5_TotalIsSumOfRounded ==
    Returned =>
        report.total_revenue =
            round2(SumSeq([i \in 1..Len(report.models) |->
                              report.models[i].estimated_revenue]))

\* C5 amended: total_revenue is the sum of the unrounded per-model revenues,
\* rounded once.
C5_TotalIsRoundedSumOfUnrounded ==
    Returned =>
        report.total_revenue =
            round2(SumSeq([i \in 1..Len(rankings) |-> UnroundedRevenue(i)]))

\* a report of two models whose rounded revenues do not add up to the total
C5_Witness ==
    /\ Returned
    /\ Len(report.models) >= 2
    /\ report.total_revenue #
           SumSeq([i \in 1..Len(report.models) |->
                      report.models[i].estimated_revenue])

\* C6: one record per element of the rankings list, each with that element's
\* rank, slug, name, total_tokens and percent_change.
C6_OneRecordPerRankedModel ==
    Returned =>
        /\ report.total_models = Len(rankings)
        /\ Len(report.models) = Len(rankings)
        /\ \A i \in 1..Len(rankings) :
              Cardinality({j \in 1..Len(report.models) :
                  /\ report.models[j].rank = rankings[i].rank
                  /\ report.models[j].slug = rankings[i].slug
                  /\ report.models[j].name = rankings[i].name
                  /\ report.models[j].total_tokens = rankings[i].total_tokens
                  /\ report.models[j].percent_change = rankings[i].percent_change})
                = 1

\* a repeated slug with no activity and no price, and a nonzero leaderboard total
C6_Witness ==
    /\ Returned
    /\ Len(rankings) >= 2
    /\ rankings[1].slug = rankings[2].slug
    /\ rankings[1].total_tokens > 0
    /\ rankings[1].slug \notin DOMAIN activities
    /\ _find_pricing(rankings[1].slug, pricing) = None

\* C7: a ranked model with no price gets the four prices 0, is classified
\* free, has estimated revenue 0, has its record emitted, and free_models
\* counts the free records.
C7_AbsentPriceIsFree ==
    Returned =>
        /\ \A i \in 1..Len(rankings) :
              _find_pricing(rankings[i].slug, pricing) = None =>
                  /\ \E m \in Records : m.rank = i /\ m.slug = rankings[i].slug
                  /\ RecordOf(i).prompt_price = 0
                  /\ RecordOf(i).completion_price = 0
                  /\ RecordOf(i).reasoning_price = 0
                  /\ RecordOf(i).cache_read_price = 0
                  /\ RecordOf(i).is_free
                  /\ RecordOf(i).estimated_revenue = 0
        /\ report.free_models =
              Cardinality({j \in 1..Len(report.models) : report.models[j].is_free})
        /\ report.free_models >=
              Cardinality({i \in 1..Len(rankings) :
                              _find_pricing(rankings[i].slug, pricing) = None})

\* a model with tokens of every kind and no price, beside a priced dict
C7_Witness ==
    /\ Returned
    /\ pricing # <<>>
    /\ \E i \in 1..Len(rankings) :
          /\ _find_pricing(rankings[i].slug, pricing) = None
          /\ RecordOf(i).prompt_tokens > 0
          /\ RecordOf(i).completion_tokens > 0
          /\ RecordOf(i).cached_tokens > 0

\* C8: the models list is in non-increasing order of estimated revenue.
C8_SortedByRevenue ==
    Returned =>
        \A i, j \in 1..Len(report.models) :
            i < j =>
                report.models[i].estimated_revenue
                    >= report.models[j].estimated_revenue

\* a report whose order differs from the input order
C8_Witness ==
    /\ Returned
    /\ \E i, j \in 1..Len(report.models) :
          /\ i < j
          /\ report.models[i].rank > report.models[j].rank
          /\ report.models[i].estimated_revenue > report.models[j].estimated_revenue

(***************************************************************************)
(* Dates: datetime.strptime, timedelta and strftime with "%Y-%m-%d"        *)
(***************************************************************************)

Date(y, m, d) == [y |-> y, m |-> m, d |-> d]

FirstYear == 2023
LastYear == 2025

IsLeap(y) == y % 4 = 0 /\ (y % 100 # 0 \/ y % 400 = 0)

DaysInMonth(y, m) ==
    IF m = 2 THEN (IF IsLeap(y) THEN 29 ELSE 28)
    ELSE IF m \in {4, 6, 9, 11} THEN 30 ELSE 31

RECURSIVE DaysBeforeMonth(_, _)
DaysBeforeMonth(y, m) ==
    IF m = 1 THEN 0 ELSE DaysBeforeMonth(y, m - 1) + DaysInMonth(y, m - 1)

DaysBeforeYear(y) ==
    (y - 1) * 365 + ((y - 1) \div 4) - ((y - 1) \div 100) + ((y - 1) \div 400)

\* datetime.strptime(s, "%Y-%m-%d"), as the day's ordinal
strptime(s) == DaysBeforeYear(s.y) + DaysBeforeMonth(s.y, s.m) + s.d

\* datetime.strftime("%Y-%m-%d") of the day with ordinal n
strftime(n) ==
    LET y == CHOOSE yy \in FirstYear..LastYear :
                 DaysBeforeYear(yy) < n /\ n <= DaysBeforeYear(yy + 1)
        k == n - DaysBeforeYear(y)
        m == CHOOSE mm \in 1..12 :
                 DaysBeforeMonth(y, mm) < k
                     /\ k <= DaysBeforeMonth(y, mm) + DaysInMonth(y, mm)
    IN  Date(y, m, k - DaysBeforeMonth(y, m))

(***************************************************************************)
(* scraper.py: sum_daily_window                                            *)
(***************************************************************************)

CandidateDatesFromYesterday(end, n) ==
    [i \in 1..n |-> strftime(end - i)]

\* lines 334-335: d for i in range(days)
CandidateDates(end, n) ==
    [i \in 1..n |-> strftime(end - (i - 1))]

\* lines 337-339: the candidates kept, in order
DatesKept(cands, skip, now) ==
    SelectSeq(cands, LAMBDA d : ~(skip /\ d = now))

ExtraDateInsideWindow(end, n) == strftime(end - (n - 1))

\* line 343
ExtraDate(end, n) == strftime(end - n)

\* lines 333-344
DatesToSum(end_str, n, skip, now) ==
    LET end == strptime(end_str)
        kept == DatesKept(CandidateDates(end, n), skip, now)
    IN  IF skip /\ end_str = now /\ Len(kept) < n
        THEN Append(kept, ExtraDate(end, n))
        ELSE kept

\* lines 346-353: the sum of one field over the dates present in daily
SumField(daily, dates, field) ==
    SumSeq([i \in 1..Len(dates) |->
               IF dates[i] \in DOMAIN daily
               THEN Get(daily[dates[i]], field, 0)
               ELSE 0])

\* today is datetime.utcnow().strftime("%Y-%m-%d"), line 331
sum_daily_window(daily, end_str, n, skip, now) ==
    LET dates_to_sum == DatesToSum(end_str, n, skip, now)
    IN  [prompt_tokens     |-> SumField(daily, dates_to_sum, "prompt"),
         completion_tokens |-> SumField(daily, dates_to_sum, "completion"),
         reasoning_tokens  |-> SumField(daily, dates_to_sum, "reasoning"),
         cached_tokens     |-> SumField(daily, dates_to_sum, "cached"),
         request_count     |-> SumField(daily, dates_to_sum, "count")]

(***************************************************************************)
(* Arguments of sum_daily_window                                           *)
(***************************************************************************)

MaxDays == 3    \* longest window

\* consecutive calendar dates around the end of February of a leap year
Calendar ==
    <<Date(2024, 2, 24), Date(2024, 2, 25), Date(2024, 2, 26), Date(2024, 2, 27),
      Date(2024, 2, 28), Date(2024, 2, 29), Date(2024, 3, 1), Date(2024, 3, 2),
      Date(2024, 3, 3)>>

DayIndex(d) == CHOOSE k \in 1..Len(Calendar) : Calendar[k] = d

EndDates == {Date(2024, 3, 1), Date(2024, 3, 2)}
TodayDates == {Date(2024, 2, 29), Date(2024, 3, 1), Date(2024, 3, 2), Date(2024, 3, 3)}

\* the dates a window of at most MaxDays days ending in EndDates can read
DataDates ==
    {Calendar[k] : k \in (DayIndex(Date(2024, 3, 1)) - MaxDays)
                            ..DayIndex(Date(2024, 3, 2))}

\* daily totals as _extract_daily_data builds them, and one without "cached"
DayRecords ==
    {[prompt |-> 1, completion |-> 2, reasoning |-> 1, cached |-> 3, count |-> 1],
     [prompt |-> 4, completion |-> 1, reasoning |-> 0, count |-> 2]}

NoRevenue ==
    /\ rankings = <<>>
    /\ activities = <<>>
    /\ pricing = <<>>
    /\ report = None

InitWindow ==
    /\ pc = "call"
    /\ \E S \in SUBSET DataDates : daily_data \in [S -> DayRecords]
    /\ end_date \in EndDates
    /\ days \in 0..MaxDays
    /\ skip_partial \in BOOLEAN
    /\ today \in TodayDates
    /\ window = None
    /\ NoRevenue /\ NoChart /\ NoPage /\ NoFeed /\ NoBackfill

\* result = sum_daily_window(daily_data, end_date, days, skip_partial)
SumDailyWindow ==
    /\ pc = "call"
    /\ window' = sum_daily_window(daily_data, end_date, days, skip_partial, today)
    /\ pc' = "return"
    /\ UNCHANGED <<daily_data, end_date, days, skip_partial, today>>
    /\ UNCHANGED <<revenue_vars, chart_vars, page_vars, feed_vars, backfill_vars>>

NextWindow == SumDailyWindow

SpecWindow == InitWindow /\ [][NextWindow]_vars

(***************************************************************************)
(* Properties of sum_daily_window                                          *)
(***************************************************************************)

WindowReturned == pc = "return" /\ window # None

\* the contribution of calendar date d to a field; 0 when the history has no d
DayValue(d, field) ==
    IF d \in DOMAIN daily_data
    THEN (IF field \in DOMAIN daily_data[d] THEN daily_data[d][field] ELSE 0)
    ELSE 0

\* the window is, field by field, the sum over the calendar dates first..last
\* days after end_date (negative: before)
WindowSumsOffsets(first, last) ==
    LET D == DayIndex(end_date)
        total(field) ==
            SumOver([k \in (D + first)..(D + last) |-> DayValue(Calendar[k], field)],
                    (D + first)..(D + last))
    IN  /\ window.prompt_tokens = total("prompt")
        /\ window.completion_tokens = total("completion")
        /\ window.reasoning_tokens = total("reasoning")
        /\ window.cached_tokens = total("cached")
        /\ window.request_count = total("count")

\* C9: with skip_partial false the window sums exactly the days dates
\* end_date-(days-1)..end_date, absent dates counting zero, whatever today is.
C9_FullWindowWithoutSkip ==
    (WindowReturned /\ ~skip_partial) => WindowSumsOffsets(-(days - 1), 0)

\* a window across the end of February that includes today, with data
C9_Witness ==
    /\ WindowReturned /\ ~skip_partial
    /\ days = MaxDays
    /\ end_date = today
    /\ end_date = Date(2024, 3, 1)
    /\ Date(2024, 2, 29) \in DOMAIN daily_data
    /\ end_date \in DOMAIN daily_data
    /\ Date(2024, 2, 28) \notin DOMAIN daily_data
    /\ window.prompt_tokens > 0

\* C10: with skip_partial true, days >= 1 and end_date the current date, the
\* window sums exactly the days dates end_date-days..end_date-1.
C10_SkipTodayShiftsWindow ==
    (WindowReturned /\ skip_partial /\ end_date = today /\ days >= 1)
        => WindowSumsOffsets(-days, -1)

\* today has data that is left out and the date end_date-days has data
C10_Witness ==
    /\ WindowReturned /\ skip_partial
    /\ end_date = today
    /\ days = MaxDays
    /\ today \in DOMAIN daily_data
    /\ Calendar[DayIndex(end_date) - days] \in DOMAIN daily_data
    /\ window.prompt_tokens > 0

(***************************************************************************)
(* sum_daily_window called again with the same arguments on a later day    *)
(***************************************************************************)

LastToday == Date(2024, 3, 3)

\* midnight UTC passes: utcnow() gives the next date from now on
ClockTick ==
    /\ strptime(today) < strptime(LastToday)
    /\ today' = strftime(strptime(today) + 1)
    /\ UNCHANGED <<pc, daily_data, end_date, days, skip_partial, window>>
    /\ UNCHANGED <<revenue_vars, chart_vars, page_vars, feed_vars, backfill_vars>>

\* a second call sum_daily_window(daily_data, end_date, days, skip_partial)
\* with the arguments of the first
SumDailyWindowAgain ==
    /\ pc = "return"
    /\ window' = sum_daily_window(daily_data, end_date, days, skip_partial, today)
    /\ UNCHANGED <<pc, daily_data, end_date, days, skip_partial, today>>
    /\ UNCHANGED <<revenue_vars, chart_vars, page_vars, feed_vars, backfill_vars>>

NextClock == SumDailyWindow \/ ClockTick \/ SumDailyWindowAgain

SpecClock == InitWindow /\ [][NextClock]_vars

\* C11: two calls of sum_daily_window with equal arguments return equal
\* results whenever they are made: once a result has been returned, no later
\* step (a second call with the same arguments included) changes it.
C11_SameArgumentsSameResult ==
    [][(pc = "return" /\ pc' = "return") => window' = window]_vars

(***************************************************************************)
(* scraper.py: scrape_rankings_history                                     *)
(*                                                                         *)
(* A script segment is its length in characters and its unescaped text as  *)
(* a sequence of tokens: a marker "x":"<date>...","ys":{ (which ends with  *)
(* an opening brace), an opening brace, a closing brace, or a pair         *)
(* "<key>":<number>, or a run of other characters without brace or quote.  *)
(* A number is its digits before and after the point.  The text after the  *)
(* last token of a segment holds no brace, marker or pair.                 *)
(***************************************************************************)

RECURSIVE DecimalDigits(_)
\* the digits of a natural number, as a number of the page is written
DecimalDigits(n) ==
    IF n < 10 THEN <<n>> ELSE Append(DecimalDigits(n \div 10), n % 10)

Marker(d) == [t |-> "x", date |-> d]
Open == [t |-> "{"]
Close == [t |-> "}"]
Pair(k, v) == [t |-> "pair", key |-> k, val |-> v]
Pad(w) == [t |-> "pad", width |-> w]

MarkerWidth == 23

\* the number of characters of a token; the brace of a marker is its last
Width(tok) ==
    CASE tok.t = "x" -> MarkerWidth
      [] tok.t \in {"{", "}"} -> 1
      [] tok.t = "pair" ->
             Len(tok.key) + 3 + Len(DecimalDigits(tok.val.whole))
                 + (IF tok.val.frac = <<>> THEN 0 ELSE 1 + Len(tok.val.frac))
      [] tok.t = "pad" -> tok.width

\* "/" in s
Contains(s, c) == \E i \in 1..Len(s) : s[i] = c

\* int(float(tokens_str)), line 135
IntOfFloat(v) == v.whole

MinScriptLen == 1000

ScanLimit == 10000

WithinScanInclusive(offset) == offset <= ScanLimit

\* line 108: the character at this offset from brace_start is in
\* range(brace_start, brace_start + 10000)
WithinScan(offset) == offset < ScanLimit

RECURSIVE ScanBrace(_, _, _, _)
\* lines 108-115 from token j on at the given depth, the first character of
\* token j being offset characters after brace_start: the position of the
\* closing brace that brings the depth to 0, or 0 when the range or the
\* segment ends before one
ScanBrace(text, j, depth, offset) ==
    IF j > Len(text) \/ ~WithinScan(offset) THEN 0
    ELSE IF text[j].t = "{" THEN ScanBrace(text, j + 1, depth + 1, offset + 1)
    ELSE IF text[j].t = "x"
         THEN ScanBrace(text, j + 1,
                        IF WithinScan(offset + MarkerWidth - 1) THEN depth + 1
                        ELSE depth,
                        offset + MarkerWidth)
    ELSE IF text[j].t = "}"
         THEN (IF depth = 1 THEN j
               ELSE ScanBrace(text, j + 1, depth - 1, offset + 1))
    ELSE ScanBrace(text, j + 1, depth, offset + Width(text[j]))

\* lines 117-120: the pairs of ys_str, the text from the brace of the marker
\* at position i to its closing brace; without a closing brace ys_str is "{"
PairsOf(text, i) ==
    LET brace_end == ScanBrace(text, i + 1, 1, 1)
    IN  IF brace_end = 0 THEN <<>>
        ELSE SelectSeq(SubSeq(text, i + 1, brace_end - 1),
                       LAMBDA tok : tok.t = "pair")

HasModelSlugsAlways(pairs) == TRUE

\* line 125
HasModelSlugs(pairs) ==
    \E i \in 1..Len(pairs) : Contains(pairs[i].key, "/")

OthersKey == <<"O", "t", "h", "e", "r", "s">>

RECURSIVE Accumulate(_, _)
\* lines 130-140 after the pairs in ps have been read, acc being the state
\* before them
Accumulate(acc, ps) ==
    IF ps = <<>> THEN acc
    ELSE LET slug == Head(ps).key
             tokens == IntOfFloat(Head(ps).val)
         IN  Accumulate(
                 [models |-> IF slug = OthersKey THEN acc.models
                             ELSE [k \in DOMAIN acc.models \cup {slug} |->
                                      IF k = slug THEN tokens ELSE acc.models[k]],
                  others |-> IF slug = OthersKey THEN tokens ELSE acc.others,
                  total  |-> acc.total + tokens],
                 Tail(ps))

\* lines 130-147
EntryOf(date_str, pairs) ==
    LET acc == Accumulate([models |-> <<>>, others |-> 0, total |-> 0], pairs)
    IN  [week_start |-> date_str, models |-> acc.models,
         others |-> acc.others, total |-> acc.total]

RECURSIVE EntriesFrom(_, _)
\* lines 102-147: the entries appended for the markers at positions i..
EntriesFrom(text, i) ==
    IF i > Len(text) THEN <<>>
    ELSE IF text[i].t # "x" THEN EntriesFrom(text, i + 1)
    ELSE LET pairs == PairsOf(text, i)
         IN  IF pairs = <<>> \/ ~HasModelSlugs(pairs)
             THEN EntriesFrom(text, i + 1)
             ELSE <<EntryOf(text[i].date, pairs)>> \o EntriesFrom(text, i + 1)

\* lines 98-147: the entries of one script segment that is not skipped
SegmentEntries(script) == EntriesFrom(script.text, 1)

BetterOrEqual(entries, best_entries) == Len(entries) >= Len(best_entries)

\* line 149
Better(entries, best_entries) == Len(entries) > Len(best_entries)

RECURSIVE BestEntries(_, _)
\* lines 92-150: best_entries after the segments in scripts, from best
BestEntries(scripts, best) ==
    IF scripts = <<>> THEN best
    ELSE IF Head(scripts).len < MinScriptLen THEN BestEntries(Tail(scripts), best)
    ELSE LET entries == SegmentEntries(Head(scripts))
         IN  IF Better(entries, best)
             THEN BestEntries(Tail(scripts), entries)
             ELSE BestEntries(Tail(scripts), best)

\* a < b for two "YYYY-MM-DD" strings: the fields have a fixed width, so the
\* strings compare as the triples of their fields
StrLess(a, b) ==
    \/ a.y < b.y
    \/ a.y = b.y /\ a.m < b.m
    \/ a.y = b.y /\ a.m = b.m /\ a.d < b.d

RECURSIVE InsertByWeek(_, _)
\* e placed after the entries of the sorted list s that are not later than it
InsertByWeek(e, s) ==
    IF s = <<>> THEN <<e>>
    ELSE IF StrLess(e.week_start, Head(s).week_start) THEN <<e>> \o s
    ELSE <<Head(s)>> \o InsertByWeek(e, Tail(s))

RECURSIVE SortedFrom(_, _)
SortedFrom(s, acc) ==
    IF s = <<>> THEN acc ELSE SortedFrom(Tail(s), InsertByWeek(Head(s), acc))

SortedByWeekUnsorted(s) == s

\* line 152: sorted(best_entries, key=lambda x: x["week_start"]), stable
SortedByWeek(s) == SortedFrom(s, <<>>)

\* lines 91-155
scrape_rankings_history(scripts) == SortedByWeek(BestEntries(scripts, <<>>))

(***************************************************************************)
(* Pages given to scrape_rankings_history                                  *)
(***************************************************************************)

MaxBody == 4        \* most tokens after the marker of a one-entry segment
MaxSegments == 2    \* most script segments of a page

Week1 == Date(2024, 2, 26)
Week2 == Date(2024, 3, 4)

NoSlashKey == <<"r", "e", "q">>

\* the numbers 1 and 2.5
Numbers == {[whole |-> 1, frac |-> <<>>], [whole |-> 2, frac |-> <<"5">>]}

BodyTokens ==
    {Open, Close} \cup {Pair(k, v) : k \in {KeyBase, OthersKey, NoSlashKey},
                                     v \in Numbers}

ScriptLens == {MinScriptLen - 1, MinScriptLen}

\* one segment, one marker, every text of at most MaxBody tokens after it
PagesDeep ==
    {<<[len |-> n, text |-> <<Marker(Week1)>> \o b]>> :
        n \in ScriptLens, b \in SeqsUpTo(BodyTokens, MaxBody)}

One == [whole |-> 1, frac |-> <<>>]

\* a model-level entry and an entry of a chart without model slugs
ModelEntry(d, k) == <<Marker(d), Pair(k, One), Pair(OthersKey, One), Close>>
PlainEntry(d) == <<Marker(d), Pair(NoSlashKey, One), Close>>

WideTexts ==
    {<<>>,
     ModelEntry(Week1, KeyBase),
     ModelEntry(Week2, SlugExact),
     PlainEntry(Week1) \o PlainEntry(Week2),
     ModelEntry(Week2, KeyBase) \o ModelEntry(Week1, KeyBase),
     ModelEntry(Week1, SlugExact) \o ModelEntry(Week2, SlugExact),
     ModelEntry(Week2, SlugExact) \o PlainEntry(Week1) \o ModelEntry(Week2, KeyBase)}

\* at most MaxSegments segments of whole entries
PagesWide ==
    SeqsUpTo([len : ScriptLens, text : WideTexts], MaxSegments)

MaxSlack == 14      \* the widest gap between a run of filler and ScanLimit

PadWidths == {1} \cup {ScanLimit - k : k \in 0..MaxSlack}

\* entries whose closing brace lies near the end of the range of the scan:
\* a flat object, a nested object, an object that is never closed, and an
\* object that runs into the next entry
LongTexts ==
    UNION {{<<Marker(Week1), Pair(KeyBase, One), Pad(w), Close>>,
            <<Marker(Week1), Open, Pad(w), Close, Pair(KeyBase, One), Close>>,
            <<Marker(Week1), Pair(KeyBase, One), Pad(w)>>,
            <<Marker(Week1), Pair(KeyBase, One), Pad(w)>>
                \o ModelEntry(Week2, SlugExact),
            <<Marker(Week1), Pair(KeyBase, One), Pad(w)>>
                \o ModelEntry(Week2, SlugExact) \o <<Close>>} :
           w \in PadWidths}

\* one segment longer than the range of the scan
PagesLong ==
    {<<[len |-> ScanLimit + MinScriptLen, text |-> t]>> : t \in LongTexts}

InitChart ==
    /\ pc = "call"
    /\ html \in PagesDeep \cup PagesWide \cup PagesLong
    /\ history = <<>>
    /\ NoRevenue /\ NoWindow /\ NoPage /\ NoFeed /\ NoBackfill

\* history_weeks = scrape_rankings_history(html=rankings_html)
ScrapeRankingsHistory ==
    /\ pc = "call"
    /\ history' = scrape_rankings_history(html)
    /\ pc' = "return"
    /\ UNCHANGED html
    /\ UNCHANGED <<revenue_vars, window_vars, page_vars, feed_vars, backfill_vars>>

NextChart == ScrapeRankingsHistory

SpecChart == InitChart /\ [][NextChart]_vars

(***************************************************************************)
(* Properties of scrape_rankings_history                                   *)
(***************************************************************************)

ChartReturned == pc = "return"

\* C12: every returned entry has total = sum of its models' values + others
\* and others >= 0, repeated keys, repeated "Others" and nested objects
\* included.
C12_TotalIsModelsPlusOthers ==
    ChartReturned =>
        \A i \in 1..Len(history) :
            /\ history[i].total
                   = SumOver(history[i].models, DOMAIN history[i].models)
                         + history[i].others
            /\ history[i].others >= 0

\* the entries the extractor accepts from segment k: none from a segment
\* shorter than MinScriptLen, which is not parsed
Accepted(k) ==
    IF html[k].len < MinScriptLen THEN <<>> ELSE SegmentEntries(html[k])

Count(s, e) == Cardinality({i \in 1..Len(s) : s[i] = e})

\* a and b hold the same entries, each as many times
SameEntries(a, b) ==
    /\ Len(a) = Len(b)
    /\ \A i \in 1..Len(a) : Count(a, a[i]) = Count(b, a[i])

\* the segments with the greatest number, above zero, of accepted entries
TopSegments ==
    {k \in 1..Len(html) :
        /\ Len(Accepted(k)) > 0
        /\ \A j \in 1..Len(html) : Len(Accepted(j)) <= Len(Accepted(k))}

\* C13: the result holds the entries of exactly one segment, the earliest of
\* those with the greatest number of accepted entries, and is empty when no
\* segment has an accepted entry.
C13_EntriesOfBestSegment ==
    ChartReturned =>
        IF TopSegments = {} THEN history = <<>>
        ELSE LET k == CHOOSE k \in TopSegments : \A j \in TopSegments : k <= j
             IN  SameEntries(history, Accepted(k))

\* two segments tie with two accepted entries each, and differ
C13_Witness ==
    /\ ChartReturned
    /\ Len(html) = 2
    /\ TopSegments = {1, 2}
    /\ Len(history) = 2
    /\ ~SameEntries(Accepted(1), Accepted(2))

HasSlashKey(entry) == \E k \in DOMAIN entry.models : Contains(k, "/")

\* segment k has a pair whose key contains "/"
HasSlashPair(k) ==
    \E i \in 1..Len(html[k].text) :
        html[k].text[i].t = "pair" /\ Contains(html[k].text[i].key, "/")

\* C14: every returned entry has a model key containing "/", and when no
\* segment has a pair with such a key nothing is returned, however many
\* entries the segments have.
C14_OnlyModelLevelEntries ==
    ChartReturned =>
        /\ \A i \in 1..Len(history) : HasSlashKey(history[i])
        /\ (\A k \in 1..Len(html) : ~HasSlashPair(k)) => history = <<>>

\* a segment of two entries without model slugs loses to a segment of one
\* model-level entry
C14_Witness ==
    /\ ChartReturned
    /\ Len(html) = 2
    /\ html[1].len >= MinScriptLen /\ html[2].len >= MinScriptLen
    /\ html[1].text = PlainEntry(Week1) \o PlainEntry(Week2)
    /\ HasSlashPair(2)
    /\ Len(history) = 1

\* C15: the returned list is ordered by non-decreasing week_start, whatever
\* the order of the entries in the page.
C15_SortedByWeekStart ==
    ChartReturned =>
        \A i, j \in 1..Len(history) :
            i < j => ~StrLess(history[j].week_start, history[i].week_start)

\* the page lists the later week first
C15_Witness ==
    /\ ChartReturned
    /\ Len(html) = 1
    /\ html[1].text = ModelEntry(Week2, KeyBase) \o ModelEntry(Week1, KeyBase)
    /\ Len(history) = 2
    /\ history[1].week_start = Week1
    /\ history[2].week_start = Week2

(***************************************************************************)
(* api.py: fetch_model_pricing                                             *)
(*                                                                         *)
(* A price string of the feed is a sequence of characters; float() is      *)
(* modelled on decimal numerals with an optional sign and point, and a     *)
(* parsed price is in mills per token, digits beyond the third decimal     *)
(* being outside the model.  An absent "id", "canonical_slug" or "name" is *)
(* the empty string, which model.get(..., "") makes of it.                 *)
(***************************************************************************)

Digits == {"0", "1", "2", "3", "4", "5", "6", "7", "8", "9"}

DigitValue(c) ==
    CASE c = "0" -> 0 [] c = "1" -> 1 [] c = "2" -> 2 [] c = "3" -> 3
      [] c = "4" -> 4 [] c = "5" -> 5 [] c = "6" -> 6 [] c = "7" -> 7
      [] c = "8" -> 8 [] c = "9" -> 9

RECURSIVE DigitsValue(_)
\* the number written by a sequence of digits; 0 for no digit
DigitsValue(ds) ==
    IF ds = <<>> THEN 0
    ELSE 10 * DigitsValue(SubSeq(ds, 1, Len(ds) - 1)) + DigitValue(ds[Len(ds)])

\* float(value) accepts value
IsNumeral(value) ==
    LET body == IF value # <<>> /\ Head(value) = "-" THEN Tail(value) ELSE value
        points == {i \in 1..Len(body) : body[i] = "."}
    IN  /\ \A i \in 1..Len(body) : body[i] \in Digits \cup {"."}
        /\ Cardinality(points) <= 1
        /\ \E i \in 1..Len(body) : body[i] \in Digits

\* float(value) of a numeral, in mills
FloatMills(value) ==
    LET neg == Head(value) = "-"
        body == IF neg THEN Tail(value) ELSE value
        pointed == \E i \in 1..Len(body) : body[i] = "."
        point == IF pointed THEN CHOOSE i \in 1..Len(body) : body[i] = "."
                 ELSE Len(body) + 1
        whole == SubSeq(body, 1, point - 1)
        frac == IF pointed
                THEN SubSeq(body \o <<"0", "0", "0">>, point + 1, point + 3)
                ELSE <<>>
        mills == 1000 * DigitsValue(whole) + DigitsValue(frac)
    IN  IF neg THEN -mills ELSE mills

\* lines 75-82
_parse_price(value) ==
    IF value = <<>> THEN 0
    ELSE IF IsNumeral(value) THEN FloatMills(value)
    ELSE 0

ZeroString == <<"0">>

ReasoningPriceNoFallback(reasoning_price, completion_price) == reasoning_price

\* lines 51-52
ReasoningPrice(reasoning_price, completion_price) ==
    IF reasoning_price = 0 THEN completion_price ELSE reasoning_price

\* lines 37-64: the entry built from one model of the feed
PriceEntry(model) ==
    LET prices == model.pricing
        completion_price == _parse_price(Get(prices, "completion", ZeroString))
    IN  [id                |-> model.id,
         name              |-> model.name,
         prompt_price      |-> _parse_price(Get(prices, "prompt", ZeroString)),
         completion_price  |-> completion_price,
         reasoning_price   |->
             ReasoningPrice(_parse_price(Get(prices, "internal_reasoning", <<>>)),
                            completion_price),
         image_price       |-> _parse_price(Get(prices, "image", ZeroString)),
         web_search_price  |-> _parse_price(Get(prices, "web_search", ZeroString)),
         cache_read_price  |->
             _parse_price(Get(prices, "input_cache_read", ZeroString)),
         cache_write_price |->
             _parse_price(Get(prices, "input_cache_write", ZeroString))]

\* pricing_map[k] = v: a present key keeps its place, a new key goes last
DictSet(map, k, v) ==
    IF HasKey(map, k)
    THEN [i \in 1..Len(map) |-> IF map[i].key = k THEN [key |-> k, value |-> v]
                                ELSE map[i]]
    ELSE Append(map, [key |-> k, value |-> v])

IndexEntryFirstWins(map, k, entry) ==
    IF k = <<>> \/ HasKey(map, k) THEN map ELSE DictSet(map, k, entry)

\* lines 67-68 and 69-70: "if k: pricing_map[k] = entry"
IndexEntry(map, k, entry) ==
    IF k = <<>> THEN map ELSE DictSet(map, k, entry)

RECURSIVE BuildPricingMap(_, _)
\* lines 36-70: pricing_map after the models in data, from map
BuildPricingMap(data, map) ==
    IF data = <<>> THEN map
    ELSE LET model == Head(data)
             entry == PriceEntry(model)
         IN  BuildPricingMap(
                 Tail(data),
                 IndexEntry(IndexEntry(map, model.canonical_slug, entry),
                            model.id, entry))

\* lines 35-72, data being resp.json().get("data", [])
fetch_model_pricing(data) == BuildPricingMap(data, <<>>)

(***************************************************************************)
(* Feeds given to fetch_model_pricing                                      *)
(***************************************************************************)

MaxFeed == 2    \* most models of a feed

\* "pricing" objects: none of the keys, plain prices, a free prompt with a
\* reasoning price and a cache price that is not a number, and reasoning
\* prices that are empty, not a number or zero
FeedPricings ==
    {<<>>,
     [prompt |-> <<"0", ".", "0", "0", "6">>,
      completion |-> <<"0", ".", "0", "0", "6">>],
     [prompt |-> <<"0">>,
      completion |-> <<"0", ".", "0", "1", "2">>,
      internal_reasoning |-> <<"0", ".", "0", "1", "1">>,
      input_cache_read |-> <<"n", "/", "a">>,
      input_cache_write |-> <<>>],
     [completion |-> <<"0", ".", "0", "1", "2">>,
      internal_reasoning |-> <<>>],
     [completion |-> <<"0", ".", "0", "1", "2">>,
      internal_reasoning |-> <<"n", "/", "a">>],
     [completion |-> <<"0", ".", "0", "1", "2">>,
      internal_reasoning |-> <<"0", ".", "0">>],
     [completion |-> <<"n", "/", "a">>,
      internal_reasoning |-> <<"0">>]}

FeedModels ==
    [id : {<<>>, KeyBase, SlugExact},
     canonical_slug : {<<>>, KeyBase, SlugDated},
     name : {"M"},
     pricing : FeedPricings]

InitFeed ==
    /\ pc = "call"
    /\ feed \in SeqsUpTo(FeedModels, MaxFeed)
    /\ query = <<>> /\ found = None
    /\ pricing = <<>>
    /\ rankings = <<>> /\ activities = <<>> /\ report = None
    /\ NoWindow /\ NoChart /\ NoPage /\ NoBackfill

\* pricing = fetch_model_pricing(), the feed being the response
FetchModelPricing ==
    /\ pc = "call"
    /\ pricing' = fetch_model_pricing(feed)
    /\ pc' = "return"
    /\ UNCHANGED <<rankings, activities, report, feed_vars>>
    /\ UNCHANGED <<window_vars, chart_vars, page_vars, backfill_vars>>

NextFeed == FetchModelPricing

SpecFeed == InitFeed /\ [][NextFeed]_vars

(***************************************************************************)
(* Properties of fetch_model_pricing                                       *)
(***************************************************************************)

PriceBookBuilt == pc = "return"

\* the models of the feed with both a canonical alias and an identifier
DoublyKeyed == {i \in 1..Len(feed) : feed[i].canonical_slug # <<>> /\ feed[i].id # <<>>}

\* C20 as stated: for every model of the feed with both keys, the lookup of
\* its canonical alias and the lookup of its identifier return the same record.
C20_AliasAndIdSameRecord ==
    PriceBookBuilt =>
        \A i \in DoublyKeyed :
            _find_pricing(feed[i].canonical_slug, pricing)
                = _find_pricing(feed[i].id, pricing)

\* no later model of the feed has a key of model i as one of its keys
NotOverwritten(i) ==
    \A j \in (i + 1)..Len(feed) :
        {feed[j].canonical_slug, feed[j].id}
            \cap {feed[i].canonical_slug, feed[i].id} = {}

\* C20 amended: for every model of the feed with both keys, neither of them
\* a key of a later model, both lookups return the record built from it.
C20_AliasAndIdSameRecordUnlessOverwritten ==
    PriceBookBuilt =>
        \A i \in DoublyKeyed :
            NotOverwritten(i) =>
                /\ _find_pricing(feed[i].canonical_slug, pricing) = PriceEntry(feed[i])
                /\ _find_pricing(feed[i].id, pricing) = PriceEntry(feed[i])

\* the last of two models takes over the identifier of the first, and both
\* of its keys find its record
C20_Witness ==
    /\ PriceBookBuilt
    /\ Len(feed) = 2
    /\ DoublyKeyed = {1, 2}
    /\ feed[2].id = feed[1].id
    /\ feed[2].canonical_slug # feed[1].canonical_slug
    /\ PriceEntry(feed[1]) # PriceEntry(feed[2])
    /\ _find_pricing(feed[2].id, pricing) = PriceEntry(feed[2])
    /\ Len(pricing) = 3

(***************************************************************************)
(* scraper.py: _extract_daily_data                                         *)
(*                                                                         *)
(* The text of a model page is a sequence of tokens:                       *)
(*   Head(d)    "date":"<d>...","model_permaslug", with which both         *)
(*              patterns begin;                                            *)
(*   Daily(..)  :"<slug>","variant":"<v>","total_completion_tokens":<c>,   *)
(*              "total_prompt_tokens":<p>,                                 *)
(*              "total_native_tokens_reasoning":<r>,"count":<n>, the rest  *)
(*              of daily_pattern, which matches a Head followed by it;     *)
(*   Cached(c)  "total_native_tokens_cached":<c>, the end of               *)
(*              cached_pattern;                                            *)
(*   Newline    a line break, which the .*? of cached_pattern does not     *)
(*              cross.                                                     *)
(* A count is the sequence of its digits.                                  *)
(***************************************************************************)

PageHead(d) == [t |-> "date", date |-> d]
Daily(v, c, p, r, n) ==
    [t |-> "daily", variant |-> v, comp |-> c, prompt |-> p,
     reasoning |-> r, count |-> n]
Cached(c) == [t |-> "cached", cached |-> c]
Newline == [t |-> "newline"]

\* int(s) of a string of digits
int(s) == DigitsValue(s)

\* lines 259-268: daily_pattern.findall(html)
daily_entries_of(text) ==
    LET at == {i \in 1..(Len(text) - 1) :
                  text[i].t = "date" /\ text[i + 1].t = "daily"}
        matches == [i \in 1..(Len(text) - 1) |->
                       IF i \in at
                       THEN [date_str |-> text[i].date,
                             variant |-> text[i + 1].variant,
                             comp |-> text[i + 1].comp,
                             prompt |-> text[i + 1].prompt,
                             reasoning |-> text[i + 1].reasoning,
                             count |-> text[i + 1].count]
                       ELSE None]
    IN  SelectSeq(matches, LAMBDA m : m # None)

\* the first "total_native_tokens_cached" that the .*? of lines 276-277
\* reaches from the head at position i: the first on the same line, whatever
\* lies between; 0 when there is none
CachedReached(text, i) ==
    LET reach == {j \in (i + 1)..Len(text) :
                     /\ text[j].t = "cached"
                     /\ \A k \in (i + 1)..(j - 1) : text[k].t # "newline"}
    IN  IF reach = {} THEN 0 ELSE CHOOSE j \in reach : \A k \in reach : j <= k

RECURSIVE cached_entries_from(_, _)
\* lines 274-279: cached_pattern.findall(html) from position i on; a match
\* ends at its cached count and the search goes on after it
cached_entries_from(text, i) ==
    IF i > Len(text) THEN <<>>
    ELSE IF text[i].t = "date" /\ CachedReached(text, i) # 0
    THEN LET j == CachedReached(text, i)
         IN  <<[date_str |-> text[i].date, cached |-> text[j].cached]>>
                 \o cached_entries_from(text, j + 1)
    ELSE cached_entries_from(text, i + 1)

RECURSIVE cached_by_date_of(_, _)
\* lines 280-282
cached_by_date_of(cached_entries, acc) ==
    IF cached_entries = <<>> THEN acc
    ELSE LET e == Head(cached_entries)
         IN  cached_by_date_of(
                 Tail(cached_entries),
                 [d \in DOMAIN acc \cup {e.date_str} |->
                     IF d = e.date_str THEN Get(acc, d, 0) + int(e.cached)
                     ELSE acc[d]])

ZeroTotals ==
    [prompt |-> 0, completion |-> 0, reasoning |-> 0, cached |-> 0, count |-> 0]

AddEntryNoCompletion(totals, e) ==
    [prompt     |-> totals.prompt + int(e.prompt),
     completion |-> totals.completion,
     reasoning  |-> totals.reasoning + int(e.reasoning),
     cached     |-> totals.cached,
     count      |-> totals.count + int(e.count)]

AddEntryReplacing(totals, e) ==
    [prompt     |-> int(e.prompt),
     completion |-> int(e.comp),
     reasoning  |-> int(e.reasoning),
     cached     |-> totals.cached,
     count      |-> int(e.count)]

\* lines 291-294
AddEntry(totals, e) ==
    [prompt     |-> totals.prompt + int(e.prompt),
     completion |-> totals.completion + int(e.comp),
     reasoning  |-> totals.reasoning + int(e.reasoning),
     cached     |-> totals.cached,
     count      |-> totals.count + int(e.count)]

RECURSIVE daily_totals_of(_, _)
\* lines 285-294
daily_totals_of(daily_entries, acc) ==
    IF daily_entries = <<>> THEN acc
    ELSE LET e == Head(daily_entries)
         IN  daily_totals_of(
                 Tail(daily_entries),
                 [d \in DOMAIN acc \cup {e.date_str} |->
                     IF d = e.date_str THEN AddEntry(Get(acc, d, ZeroTotals), e)
                     ELSE acc[d]])

\* lines 297-299
MergeCached(daily_totals, cached_by_date) ==
    [d \in DOMAIN daily_totals |->
        IF d \in DOMAIN cached_by_date
        THEN [daily_totals[d] EXCEPT !.cached = cached_by_date[d]]
        ELSE daily_totals[d]]

\* lines 241-301
_extract_daily_data(text) ==
    LET daily_entries == daily_entries_of(text)
    IN  IF daily_entries = <<>> THEN <<>>
        ELSE MergeCached(
                 daily_totals_of(daily_entries, <<>>),
                 cached_by_date_of(cached_entries_from(text, 1), <<>>))

(***************************************************************************)
(* Pages given to _extract_daily_data                                      *)
(***************************************************************************)

MaxPage == 4       \* most tokens of a page of any form
MaxEntries == 3    \* most entries of a page of whole entries

Day1 == Date(2024, 2, 29)
Day2 == Date(2024, 3, 1)

\* a day of the standard variant, and a day of another variant that reports
\* more reasoning tokens than completion tokens
DailyStandard == Daily("standard", <<"2">>, <<"1">>, <<"1">>, <<"1">>)
DailyOther == Daily("free", <<"1">>, <<"1", "0">>, <<"3">>, <<"2">>)

PageTokens ==
    {PageHead(Day1), PageHead(Day2), DailyStandard, DailyOther,
     Cached(<<"3">>), Newline}

\* an entry with its daily counts, with or without a cached count
WholeEntries ==
    {<<PageHead(d), x>> \o c :
        d \in {Day1, Day2}, x \in {DailyStandard, DailyOther},
        c \in {<<>>, <<Cached(<<"3">>)>>}}

RECURSIVE Flatten(_)
Flatten(ss) == IF ss = <<>> THEN <<>> ELSE Head(ss) \o Flatten(Tail(ss))

Pages ==
    SeqsUpTo(PageTokens, MaxPage)
        \cup {Flatten(es) : es \in SeqsUpTo(WholeEntries, MaxEntries)}

InitPage ==
    /\ pc = "call"
    /\ page \in Pages
    /\ daily_data = <<>>
    /\ end_date = None
    /\ days = 0
    /\ skip_partial = FALSE
    /\ today = Day2
    /\ window = None
    /\ NoRevenue /\ NoChart /\ NoFeed /\ NoBackfill

\* daily_data = _extract_daily_data(resp.text)
ExtractDailyData ==
    /\ pc = "call"
    /\ daily_data' = _extract_daily_data(page)
    /\ pc' = "extracted"
    /\ UNCHANGED <<page, end_date, days, skip_partial, today, window>>
    /\ UNCHANGED <<revenue_vars, chart_vars, feed_vars, backfill_vars>>

\* sum_daily_window(daily_data, end, days, skip_partial) over the extracted
\* records
SumExtractedWindow ==
    /\ pc = "extracted"
    /\ \E n \in 1..MaxDays, skip \in BOOLEAN :
           /\ end_date' = Day2
           /\ days' = n
           /\ skip_partial' = skip
           /\ window' = sum_daily_window(daily_data, Day2, n, skip, today)
    /\ pc' = "return"
    /\ UNCHANGED <<page, daily_data, today>>
    /\ UNCHANGED <<revenue_vars, chart_vars, feed_vars, backfill_vars>>

NextPage == ExtractDailyData \/ SumExtractedWindow

SpecPage == InitPage /\ [][NextPage]_vars

(***************************************************************************)
(* Properties of _extract_daily_data                                       *)
(***************************************************************************)

Extracted == pc \in {"extracted", "return"}

\* the positions of the heads of the matched daily entries, and those of date d
Matched ==
    {i \in 1..(Len(page) - 1) : page[i].t = "date" /\ page[i + 1].t = "daily"}
MatchedOn(d) == {i \in Matched : page[i].date = d}

\* the sum of a field over the matched daily entries of date d
MatchedSum(d, field) ==
    SumOver([i \in MatchedOn(d) |-> DigitsValue(page[i + 1][field])], MatchedOn(d))

\* C17: the result has one record per distinct date of the matched daily
\* entries, and no other date; prompt, completion, reasoning and count are
\* each the sum over all matched entries of that date; it is empty when no
\* daily entry matches.
C17_OneRecordPerDateSummed ==
    Extracted =>
        /\ DOMAIN daily_data = {page[i].date : i \in Matched}
        /\ \A d \in DOMAIN daily_data :
               /\ daily_data[d].prompt = MatchedSum(d, "prompt")
               /\ daily_data[d].completion = MatchedSum(d, "comp")
               /\ daily_data[d].reasoning = MatchedSum(d, "reasoning")
               /\ daily_data[d].count = MatchedSum(d, "count")
        /\ Matched = {} => daily_data = <<>>

\* two variants on one date and one entry on another
C17_Witness ==
    /\ pc = "extracted"
    /\ Cardinality(MatchedOn(Day1)) = 2
    /\ Cardinality(MatchedOn(Day2)) = 1
    /\ \E i, j \in MatchedOn(Day1) : page[i + 1].variant # page[j + 1].variant
    /\ DOMAIN daily_data = {Day1, Day2}
    /\ daily_data[Day1].prompt = 11
    /\ daily_data[Day1].count = 3

\* the date of the entry a cached count stands in: that of the nearest head
\* before it; None before the first head
OwnDate(j) ==
    LET heads == {i \in 1..(j - 1) : page[i].t = "date"}
    IN  IF heads = {} THEN None
        ELSE page[CHOOSE i \in heads : \A k \in heads : k <= i].date

CachedOn(d) == {j \in 1..Len(page) : page[j].t = "cached" /\ OwnDate(j) = d}

\* C18: the cached field of the record of date d is the sum of the cached
\* counts of the entries whose own date is d, 0 when there is none: a cached
\* count never goes to the date of an earlier entry.
C18_CachedOfOwnDate ==
    Extracted =>
        \A d \in DOMAIN daily_data :
            daily_data[d].cached
                = SumOver([j \in CachedOn(d) |-> DigitsValue(page[j].cached)],
                          CachedOn(d))

\* C19 as stated: every extracted record and every window summed from the
\* extracted records has completion tokens >= reasoning tokens.
C19_CompletionAtLeastReasoning ==
    /\ Extracted =>
           \A d \in DOMAIN daily_data :
               daily_data[d].completion >= daily_data[d].reasoning
    /\ pc = "return" => window.completion_tokens >= window.reasoning_tokens

\* every matched daily entry of the page has completion >= reasoning
PageCompletionAtLeastReasoning ==
    \A i \in Matched :
        DigitsValue(page[i + 1].comp) >= DigitsValue(page[i + 1].reasoning)

\* C19 amended: when every matched daily entry of the page has completion
\* tokens >= reasoning tokens, so has every extracted record and every window
\* summed from the extracted records.
C19_CompletionAtLeastReasoningPreserved ==
    PageCompletionAtLeastReasoning =>
        /\ Extracted =>
               \A d \in DOMAIN daily_data :
                   daily_data[d].completion >= daily_data[d].reasoning
        /\ pc = "return" => window.completion_tokens >= window.reasoning_tokens

\* a window over two extracted days with reasoning tokens
C19_Witness ==
    /\ pc = "return"
    /\ PageCompletionAtLeastReasoning
    /\ DOMAIN daily_data = {Day1, Day2}
    /\ days = 2 /\ ~skip_partial
    /\ window.reasoning_tokens = 2
    /\ window.completion_tokens = 4

(***************************************************************************)
(* main.py: run_backfill                                                   *)
(*                                                                         *)
(* The run is followed request by request and file by file.  A snapshot is *)
(* the date it is saved under; the display names and the revenue decide    *)
(* the contents of the snapshots only, and are left out.  The rankings     *)
(* list and the activities of a week are kept until the next week's.       *)
(***************************************************************************)

\* ord(c) of the characters of the identifiers
Ord(c) ==
    CASE c = "-" -> 45 [] c = "/" -> 47 [] c = "1" -> 49 [] c = "2" -> 50
      [] c = "3" -> 51 [] c = ":" -> 58 [] c = "O" -> 79 [] c = "a" -> 97
      [] c = "b" -> 98 [] c = "e" -> 101 [] c = "f" -> 102 [] c = "h" -> 104
      [] c = "q" -> 113 [] c = "r" -> 114 [] c = "s" -> 115 [] c = "t" -> 116
      [] c = "x" -> 120 [] c = "y" -> 121

RECURSIVE SlugLess(_, _)
\* a < b for two strings
SlugLess(a, b) ==
    IF b = <<>> THEN FALSE
    ELSE IF a = <<>> THEN TRUE
    ELSE IF Head(a) # Head(b) THEN Ord(Head(a)) < Ord(Head(b))
    ELSE SlugLess(Tail(a), Tail(b))

RECURSIVE SortedSlugs(_)
\* sorted(all_slugs), line 211
SortedSlugs(S) ==
    IF S = {} THEN <<>>
    ELSE LET least == CHOOSE a \in S : \A b \in S \ {a} : SlugLess(a, b)
         IN  <<least>> \o SortedSlugs(S \ {least})

PartialDays == 7

\* lines 182-190
CompleteWeeks(history_weeks, now) ==
    LET last_entry == history_weeks[Len(history_weeks)]
    IN  IF strptime(now) - strptime(last_entry.week_start) < PartialDays
        THEN SubSeq(history_weeks, 1, Len(history_weeks) - 1)
        ELSE history_weeks

\* lines 193-196: complete_weeks[-num_weeks:] when num_weeks > 0
TargetWeeks(complete_weeks, n) ==
    IF n > 0 /\ n < Len(complete_weeks)
    THEN SubSeq(complete_weeks, Len(complete_weeks) - n + 1, Len(complete_weeks))
    ELSE complete_weeks

\* lines 203-205
AllSlugs(target_weeks) ==
    UNION {DOMAIN target_weeks[i].models : i \in 1..Len(target_weeks)}

WeekLength == 6
WeekDays == 7

\* lines 237-239
WeekEnd(week_start) == strftime(strptime(week_start) + WeekLength)

\* list.index(e): the position of the first element equal to e
IndexOf(s, e) == CHOOSE i \in 1..Len(s) : s[i] = e /\ \A j \in 1..(i - 1) : s[j] # e

\* lines 247-255: prev_models of the i-th target week
PrevModels(complete_weeks, target_weeks, i) ==
    IF i > 1 THEN target_weeks[i - 1].models
    ELSE IF Len(complete_weeks) > Len(target_weeks)
                /\ IndexOf(complete_weeks, target_weeks[i]) > 1
         THEN complete_weeks[IndexOf(complete_weeks, target_weeks[i]) - 1].models
         ELSE <<>>

\* lines 273-277: round() of a quotient of integers, halves to the even
PercentChange(chart_tokens, prev_tokens) ==
    IF prev_tokens > 0
    THEN RoundDiv((chart_tokens - prev_tokens) * 100, prev_tokens)
    ELSE 0

\* item placed after the items of the list whose count is not smaller
InsertByTokens(sorted, item) ==
    LET before == {i \in 1..Len(sorted) : sorted[i].tokens >= item.tokens}
        n == IF before = {} THEN 0
             ELSE CHOOSE i \in before : \A j \in before : j <= i
    IN  SubSeq(sorted, 1, n) \o <<item>> \o SubSeq(sorted, n + 1, Len(sorted))

RECURSIVE SortedModelsFrom(_, _, _)
SortedModelsFrom(sorted, week_models, slugs) ==
    IF slugs = <<>> THEN sorted
    ELSE SortedModelsFrom(
             InsertByTokens(sorted, [slug |-> Head(slugs),
                                     tokens |-> week_models[Head(slugs)]]),
             week_models, Tail(slugs))

\* line 263: sorted(week_models.items(), key=count, reverse=True), a stable
\* sort.  An entry does not keep the order of its keys in the chart: models
\* of equal count are taken in the order of their slugs.
SortedModels(week_models) ==
    SortedModelsFrom(<<>>, week_models, SortedSlugs(DOMAIN week_models))

\* lines 258-287: rankings_list of a week
RankingsList(week_models, prev_models) ==
    LET sorted_models == SortedModels(week_models)
    IN  [rank \in 1..Len(sorted_models) |->
            [rank           |-> rank,
             slug           |-> sorted_models[rank].slug,
             total_tokens   |-> sorted_models[rank].tokens,
             percent_change |->
                 PercentChange(sorted_models[rank].tokens,
                               Get(prev_models, sorted_models[rank].slug, 0))]]

PricingRequest == [url |-> "api/v1/models"]
RankingsRequest == [url |-> "rankings"]
ModelRequest(slug) == [url |-> "model", slug |-> slug]

AbortsNever(history_weeks) == FALSE

\* line 176: "if not history_weeks"
AbortsOnEmpty(history_weeks) == history_weeks = <<>>

\* the target weeks and the model pages of the run, once the chart is read
Targets == TargetWeeks(CompleteWeeks(history, today), num_weeks)
ModelPages == SortedSlugs(AllSlugs(Targets))
ModelPagesFetched == {i \in 1..Len(fetched) : fetched[i].url = "model"}

\* line 167
FetchPricing ==
    /\ pc = "pricing"
    /\ fetched' = Append(fetched, PricingRequest)
    /\ pricing' = fetch_model_pricing(feed)
    /\ pc' = "rankings"
    /\ UNCHANGED <<rankings, activities, report, window_vars, page_vars, feed_vars,
                   chart_vars, num_weeks, all_daily_data, snapshots, readme, result>>

\* api.py lines 31-32: the request fails and the exception ends the run
FetchPricingFails ==
    /\ pc = "pricing"
    /\ fetched' = Append(fetched, PricingRequest)
    /\ pc' = "raised"
    /\ UNCHANGED <<revenue_vars, window_vars, page_vars, feed_vars,
                   chart_vars, num_weeks, all_daily_data, snapshots, readme, result>>

\* lines 172-179
ScrapeRankings ==
    /\ pc = "rankings"
    /\ fetched' = Append(fetched, RankingsRequest)
    /\ history' = scrape_rankings_history(html)
    /\ IF AbortsOnEmpty(history')
       THEN result' = 1 /\ pc' = "done"
       ELSE result' = result /\ pc' = "models"
    /\ UNCHANGED <<revenue_vars, window_vars, page_vars, feed_vars,
                   html, num_weeks, all_daily_data, snapshots, readme>>

\* lines 172-173: the request fails and the exception ends the run
ScrapeRankingsFails ==
    /\ pc = "rankings"
    /\ fetched' = Append(fetched, RankingsRequest)
    /\ pc' = "raised"
    /\ UNCHANGED <<revenue_vars, window_vars, page_vars, feed_vars,
                   chart_vars, num_weeks, all_daily_data, snapshots, readme, result>>

RECURSIVE Pow2(_)
Pow2(n) == IF n = 0 THEN 1 ELSE 2 * Pow2(n - 1)

LedgerFirst == Date(2024, 2, 18)
LedgerDays == 23    \* the dates of a model page: LedgerFirst and the days after

\* the daily totals of a model page with an entry for each date from
\* LedgerFirst on, every date with a prompt count of its own binary digit
DailyLedger ==
    [d \in {strftime(strptime(LedgerFirst) + k) : k \in 0..(LedgerDays - 1)} |->
        [prompt |-> Pow2(strptime(d) - strptime(LedgerFirst)), completion |-> 1,
         reasoning |-> 0, cached |-> 0, count |-> 1]]

\* what scrape_model_daily_data returns: nothing, when the request fails or
\* the page has no analytics, or the daily totals of the page
DailyBooks == {<<>>, DailyLedger}

\* lines 211-215, one turn of the loop: a failed request is caught in
\* scrape_model_daily_data
FetchModelPage ==
    /\ pc = "models"
    /\ Cardinality(ModelPagesFetched) < Len(ModelPages)
    /\ fetched' = Append(fetched,
                         ModelRequest(ModelPages[Cardinality(ModelPagesFetched) + 1]))
    /\ \E daily \in DailyBooks :
          all_daily_data' =
              DictSet(all_daily_data,
                      ModelPages[Cardinality(ModelPagesFetched) + 1], daily)
    /\ UNCHANGED <<pc, revenue_vars, window_vars, page_vars, feed_vars,
                   chart_vars, num_weeks, snapshots, readme, result>>

\* lines 217-230, after the last model page
BuildNameLookup ==
    /\ pc = "models"
    /\ Cardinality(ModelPagesFetched) = Len(ModelPages)
    /\ pc' = "weeks"
    /\ UNCHANGED <<revenue_vars, window_vars, page_vars, feed_vars,
                   chart_vars, backfill_vars>>

\* line 267: all_daily_data.get(slug, {})
DailyOf(all_daily, slug) ==
    IF HasKey(all_daily, slug) THEN Lookup(all_daily, slug) ELSE <<>>

\* lines 235-293, one turn of the loop
SaveSnapshot ==
    /\ pc = "weeks"
    /\ Len(snapshots) < Len(Targets)
    /\ rankings' = RankingsList(Targets[Len(snapshots) + 1].models,
                                PrevModels(CompleteWeeks(history, today), Targets,
                                           Len(snapshots) + 1))
    /\ activities' =
           [slug \in DOMAIN Targets[Len(snapshots) + 1].models |->
               sum_daily_window(DailyOf(all_daily_data, slug),
                                WeekEnd(Targets[Len(snapshots) + 1].week_start),
                                WeekDays, FALSE, today)]
    /\ snapshots' = Append(snapshots, WeekEnd(Targets[Len(snapshots) + 1].week_start))
    /\ UNCHANGED <<pc, pricing, report, window_vars, page_vars,
                   feed_vars, chart_vars, num_weeks, all_daily_data, fetched, readme, result>>

\* lines 301-315, after the last week
WriteReadme ==
    /\ pc = "weeks"
    /\ Len(snapshots) = Len(Targets)
    /\ readme' = TRUE
    /\ result' = 0
    /\ pc' = "done"
    /\ UNCHANGED <<revenue_vars, window_vars, page_vars, feed_vars,
                   chart_vars, num_weeks, all_daily_data, fetched, snapshots>>

(***************************************************************************)
(* Runs of run_backfill                                                    *)
(***************************************************************************)

MaxWeeks == 2    \* largest --weeks asked for

Week0 == Date(2024, 2, 19)

Script(text) == [len |-> MinScriptLen, text |-> text]

Whole(n) == [whole |-> n, frac |-> <<>>]

\* a model-level entry of up to three models
Volume(d, a, b, c) ==
    <<Marker(d), Pair(KeyBase, Whole(a)), Pair(SlugExact, Whole(b)),
      Pair(SlugVariant, Whole(c)), Close>>
Single(d, a) == <<Marker(d), Pair(KeyBase, Whole(a)), Close>>

\* charts of weeks whose counts rise, fall, tie and vanish, and charts in
\* which a week appears twice
VolumePages ==
    {<<Script(Volume(Week0, 8, 2, 0) \o Volume(Week1, 9, 11, 9)
                  \o Volume(Week2, 16, 8, 0))>>,
     <<Script(Single(Week1, 8) \o Single(Week2, 7))>>,
     <<Script(Single(Week0, 8) \o Single(Week1, 11))>>,
     <<Script(Single(Week0, 2) \o Single(Week1, 1) \o Single(Week1, 1))>>,
     <<Script(Single(Week0, 2) \o Single(Week1, 1) \o Single(Week1, 3))>>,
     <<Script(Single(Week1, 2) \o Single(Week2, 1) \o Single(Week2, 1))>>}

\* rankings pages: without a script, with a chart too short to be read, with
\* a chart without model slugs, and with model charts of one to three weeks
BackfillBasePages ==
    {<<>>,
     <<[len |-> MinScriptLen - 1, text |-> ModelEntry(Week1, KeyBase)]>>,
     <<Script(PlainEntry(Week1) \o PlainEntry(Week2))>>,
     <<Script(ModelEntry(Week2, KeyBase))>>,
     <<Script(ModelEntry(Week1, KeyBase) \o ModelEntry(Week2, SlugExact))>>,
     <<Script(PlainEntry(Week1)),
       Script(ModelEntry(Week0, SlugExact) \o ModelEntry(Week1, SlugVariant)
                  \o ModelEntry(Week2, KeyBase))>>}

BackfillPages == BackfillBasePages \cup VolumePages

\* a day in the week of Week2 and the Monday after it
BackfillDays == {Date(2024, 3, 5), Date(2024, 3, 11)}

BackfillFeeds ==
    {<<>>,
     <<[id |-> KeyBase, canonical_slug |-> SlugDated, name |-> "M",
        pricing |-> [prompt |-> <<"0", ".", "0", "0", "6">>,
                     completion |-> <<"0", ".", "0", "1", "2">>]]>>}

InitBackfill ==
    /\ pc = "pricing"
    /\ feed \in BackfillFeeds
    /\ query = <<>> /\ found = None
    /\ html \in BackfillPages
    /\ today \in BackfillDays
    /\ num_weeks \in 0..MaxWeeks
    /\ all_daily_data = <<>>
    /\ history = <<>>
    /\ fetched = <<>>
    /\ snapshots = <<>>
    /\ readme = FALSE
    /\ result = None
    /\ NoRevenue /\ NoPage
    /\ daily_data = <<>> /\ end_date = None /\ days = 0
    /\ skip_partial = FALSE /\ window = None

NextBackfill ==
    \/ FetchPricing
    \/ FetchPricingFails
    \/ ScrapeRankings
    \/ ScrapeRankingsFails
    \/ FetchModelPage
    \/ BuildNameLookup
    \/ SaveSnapshot
    \/ WriteReadme

SpecBackfill == InitBackfill /\ [][NextBackfill]_vars

(***************************************************************************)
(* Properties of run_backfill                                              *)
(***************************************************************************)

\* the chart extractor has been called and has returned an empty history
EmptyHistoryReturned ==
    /\ pc \notin {"pricing", "rankings", "raised"}
    /\ history = <<>>

\* C16: when the chart extractor returns an empty history the run ends with
\* a non-zero result, and no model page has been fetched, no snapshot saved
\* and the README not rewritten.
C16_AbortOnEmptyHistory ==
    EmptyHistoryReturned =>
        /\ pc = "done"
        /\ result # 0
        /\ ModelPagesFetched = {}
        /\ snapshots = <<>>
        /\ ~readme

\* a rankings page whose only chart has no model slugs
C16_Witness ==
    /\ EmptyHistoryReturned
    /\ html = <<Script(PlainEntry(Week1) \o PlainEntry(Week2))>>
    /\ pc = "done"
    /\ result = 1
    /\ fetched = <<PricingRequest, RankingsRequest>>

(***************************************************************************)
(* Properties of the reasoning price of the price book                     *)
(***************************************************************************)

\* the model of the feed whose entry the price book holds under key k: the
\* last one with k as its canonical alias or identifier
SourceOf(k) ==
    LET users == {j \in 1..Len(feed) : k \in {feed[j].canonical_slug, feed[j].id}}
    IN  feed[CHOOSE j \in users : \A h \in users : h <= j]

RawReasoning(model) == Get(model.pricing, "internal_reasoning", <<>>)
RawCompletion(model) == Get(model.pricing, "completion", <<"0">>)

\* the raw reasoning price is empty, malformed or parses to 0.0
Unpriced(raw) == raw = <<>> \/ ~IsNumeral(raw) \/ FloatMills(raw) = 0

\* C21: in every record of the price book the reasoning price is the parsed
\* completion price when the raw reasoning price is empty, malformed or
\* zero, and the parsed reasoning price otherwise; it is 0 only if the
\* completion price is 0.
C21_ReasoningFallsBackToCompletion ==
    PriceBookBuilt =>
        \A i \in 1..Len(pricing) :
            LET model == SourceOf(pricing[i].key)
                rec == pricing[i].value
            IN  /\ rec.completion_price = _parse_price(RawCompletion(model))
                /\ Unpriced(RawReasoning(model))
                       => rec.reasoning_price = rec.completion_price
                /\ ~Unpriced(RawReasoning(model))
                       => rec.reasoning_price = FloatMills(RawReasoning(model))
                /\ rec.reasoning_price = 0 => rec.completion_price = 0

\* records with a malformed, an empty and a given reasoning price
C21_Witness ==
    /\ PriceBookBuilt
    /\ \E i, j \in 1..Len(pricing) :
           /\ ~IsNumeral(RawReasoning(SourceOf(pricing[i].key)))
           /\ RawReasoning(SourceOf(pricing[i].key)) # <<>>
           /\ pricing[i].value.reasoning_price = 12
           /\ RawReasoning(SourceOf(pricing[j].key)) = <<"0", ".", "0", "1", "1">>
           /\ pricing[j].value.reasoning_price = 11
           /\ pricing[j].value.completion_price = 12

(***************************************************************************)
(* Lookups given to _find_pricing                                          *)
(***************************************************************************)

MaxLookupKeys == 3    \* most keys of the price book of a lookup

LookupQueries == {SlugExact, SlugVariant, SlugDated, SlugSeven}
LookupKeys ==
    {KeyBase, KeyLong, KeyPermuted, KeyUpper, KeyTen, SlugVariant, SlugDated}

\* the price books of at most n distinct keys, in every order; the record of
\* a key carries the key as its "id"
LookupBooks(n) ==
    {[i \in 1..Len(ks) |-> [key |-> ks[i], value |-> [id |-> ks[i]]]] :
        ks \in {c \in SeqsUpTo(LookupKeys, n) :
                   \A i, j \in 1..Len(c) : i # j => c[i] # c[j]}}

InitLookup ==
    /\ pc = "call"
    /\ query \in LookupQueries
    /\ pricing \in LookupBooks(MaxLookupKeys)
    /\ found = None
    /\ feed = <<>>
    /\ rankings = <<>> /\ activities = <<>> /\ report = None
    /\ NoWindow /\ NoChart /\ NoPage /\ NoBackfill

\* price_info = _find_pricing(slug, pricing)
FindPricing ==
    /\ pc = "call"
    /\ found' = _find_pricing(query, pricing)
    /\ pc' = "return"
    /\ UNCHANGED <<revenue_vars, feed, query>>
    /\ UNCHANGED <<window_vars, chart_vars, page_vars, backfill_vars>>

NextLookup == FindPricing

SpecLookup == InitLookup /\ [][NextLookup]_vars

(***************************************************************************)
(* Properties of _find_pricing                                             *)
(***************************************************************************)

LookedUp == pc = "return"

\* the identifier without its trailing ":variant" suffix
Stripped(s) ==
    LET colons == {i \in 1..Len(s) : s[i] = ":"}
    IN  IF colons = {} THEN s
        ELSE SubSeq(s, 1, (CHOOSE i \in colons : \A j \in colons : j <= i) - 1)

\* the text before the first "/", with the "/"
ProviderPrefix(s) ==
    LET slashes == {i \in 1..Len(s) : s[i] = "/"}
    IN  IF slashes = {} THEN Append(s, "/")
        ELSE SubSeq(s, 1, CHOOSE i \in slashes : \A j \in slashes : i <= j)

\* the Jaccard index of the token sets of a and b is above 7/10
JaccardAbove(a, b) ==
    LET A == SlugParts[a]
        B == SlugParts[b]
    IN  /\ A # {} /\ B # {}
        /\ 10 * Cardinality(A \cap B) > 7 * Cardinality(A \cup B)

KeyAt(k) == {i \in 1..Len(pricing) : pricing[i].key = k}
FuzzyAt ==
    {i \in 1..Len(pricing) :
        /\ Len(pricing[i].key) >= Len(ProviderPrefix(query))
        /\ SubSeq(pricing[i].key, 1, Len(ProviderPrefix(query))) = ProviderPrefix(query)
        /\ JaccardAbove(query, pricing[i].key)}

\* C22: the lookup returns the record under the exact key; else the record
\* under the identifier without its ":variant" suffix; else the record of
\* the first key of the same provider whose similarity is above 0.7; else
\* nothing.
C22_LookupPriorityOrder ==
    LookedUp =>
        IF KeyAt(query) # {}
        THEN found = [id |-> query]
        ELSE IF KeyAt(Stripped(query)) # {}
        THEN found = [id |-> Stripped(query)]
        ELSE IF FuzzyAt # {}
        THEN found = pricing[CHOOSE i \in FuzzyAt : \A j \in FuzzyAt : i <= j].value
        ELSE found = None

\* two keys of the provider are similar enough and the second in the book is
\* returned because the first is under a provider that differs in case
C22_Witness ==
    /\ LookedUp
    /\ query = SlugDated
    /\ Len(pricing) = 3
    /\ pricing[1].key = KeyUpper
    /\ pricing[2].key = KeyPermuted
    /\ pricing[3].key = KeyLong
    /\ found = [id |-> KeyPermuted]

(***************************************************************************)
(* sum_daily_window when the current date is not the end of the window     *)
(***************************************************************************)

\* C23: with skip_partial true and end_date different from the current
\* date, later dates included, the window sums exactly the days dates
\* end_date-(days-1)..end_date.
C23_SkipOnlyWhenEndIsToday ==
    (WindowReturned /\ skip_partial /\ end_date # today)
        => WindowSumsOffsets(-(days - 1), 0)

(***************************************************************************)
(* The ys span of an entry                                                 *)
(***************************************************************************)

RECURSIVE WidthsFrom(_, _, _)
\* the number of characters of the tokens at positions a..b of text
WidthsFrom(text, a, b) ==
    IF a > b THEN 0 ELSE Width(text[a]) + WidthsFrom(text, a + 1, b)

\* the distance of the last character of token j from the brace of the
\* marker at position i
LastCharOffset(text, i, j) == WidthsFrom(text, i + 1, j)

\* the brace depth after token j, counted from the brace of the marker at i
DepthAfter(text, i, j) ==
    1 + Cardinality({m \in (i + 1)..j : text[m].t \in {"{", "x"}})
      - Cardinality({m \in (i + 1)..j : text[m].t = "}"})

\* the closing braces after the marker at i that bring the depth to zero
ZeroBraces(text, i) ==
    {j \in (i + 1)..Len(text) : text[j].t = "}" /\ DepthAfter(text, i, j) = 0}

\* the last token of the span of the marker at i: the first closing brace
\* that brings the depth to zero, when it is among the ScanLimit characters
\* from the opening brace on, else the marker itself
SpanEnd(text, i) ==
    IF ZeroBraces(text, i) = {} THEN i
    ELSE LET j == CHOOSE j \in ZeroBraces(text, i) :
                      \A m \in ZeroBraces(text, i) : j <= m
         IN  IF LastCharOffset(text, i, j) <= ScanLimit - 1 THEN j ELSE i

SpanPairs(text, i) ==
    {m \in (i + 1)..(SpanEnd(text, i) - 1) : text[m].t = "pair"}

\* the markers whose span has a pair with a model slug
AcceptedMarkers(text) ==
    {i \in 1..Len(text) :
        /\ text[i].t = "x"
        /\ \E m \in SpanPairs(text, i) : Contains(text[m].key, "/")}

RECURSIVE SpanTotal(_, _)
SpanTotal(text, ms) ==
    IF ms = {} THEN 0
    ELSE LET m == CHOOSE m \in ms : TRUE
         IN  IntOfFloat(text[m].val) + SpanTotal(text, ms \ {m})

OneParsedSegment == Len(html) = 1 /\ html[1].len >= MinScriptLen

\* C24: of a page of one parsed segment, the returned entries are those of
\* the markers whose span, from the opening brace to the first closing brace
\* that brings the depth to zero within ScanLimit characters, has a pair
\* with a model slug, each with the total of the pairs in that span; a
\* marker without such a brace in the range or the segment gives no entry.
C24_SpanToFirstBalancedBrace ==
    (ChartReturned /\ OneParsedSegment) =>
        LET text == html[1].text
        IN  /\ Len(history) = Cardinality(AcceptedMarkers(text))
            /\ \A i \in AcceptedMarkers(text) :
                   \E h \in 1..Len(history) :
                       /\ history[h].week_start = text[i].date
                       /\ history[h].total
                              = SpanTotal(text, SpanPairs(text, i))
            /\ \A i \in 1..Len(text) :
                   (text[i].t = "x" /\ SpanEnd(text, i) = i)
                       => i \notin AcceptedMarkers(text)

\* the closing brace of an entry with a model slug is the first character
\* past the range of the scan, and the entry is not returned
C24_Witness ==
    /\ ChartReturned /\ OneParsedSegment
    /\ Len(html[1].text) = 4
    /\ html[1].text[2] = Pair(KeyBase, One)
    /\ ZeroBraces(html[1].text, 1) = {4}
    /\ LastCharOffset(html[1].text, 1, 4) = ScanLimit
    /\ history = <<>>

\* the closing brace of an entry is the last character of the range, and
\* the entry is returned
C24_WitnessInRange ==
    /\ ChartReturned /\ OneParsedSegment
    /\ Len(html[1].text) = 4
    /\ ZeroBraces(html[1].text, 1) = {4}
    /\ LastCharOffset(html[1].text, 1, 4) = ScanLimit - 1
    /\ Len(history) = 1

(***************************************************************************)
(* Properties of the rankings list of a backfilled week                    *)
(***************************************************************************)

\* the rankings list of target week Len(snapshots) has been built
RankingsBuilt == pc \in {"weeks", "done"} /\ Len(snapshots) > 0

\* the target week of the latest rankings list and its place among the
\* complete weeks
LatestTarget == Targets[Len(snapshots)]
LatestPlace ==
    Len(CompleteWeeks(history, today)) - Len(Targets) + Len(snapshots)

\* the chart counts of the complete week before the latest target week
PrecedingModels ==
    IF LatestPlace > 1
    THEN CompleteWeeks(history, today)[LatestPlace - 1].models
    ELSE <<>>

\* C25: the rankings list of a target week has the week's models with ranks
\* 1..n in list order and non-increasing chart counts, and percent_change
\* is 0 for a model without a positive count in the complete week before
\* it, else the rounded change in percent.
C25_RanksOrderAndChange ==
    RankingsBuilt =>
        /\ {rankings[r].slug : r \in 1..Len(rankings)} = DOMAIN LatestTarget.models
        /\ Len(rankings) = Cardinality(DOMAIN LatestTarget.models)
        /\ \A r \in 1..Len(rankings) :
               /\ rankings[r].rank = r
               /\ rankings[r].total_tokens = LatestTarget.models[rankings[r].slug]
               /\ r < Len(rankings)
                      => rankings[r].total_tokens >= rankings[r + 1].total_tokens
               /\ LET cur == rankings[r].total_tokens
                      prev == Get(PrecedingModels, rankings[r].slug, 0)
                  IN  rankings[r].percent_change
                          = IF prev > 0 THEN RoundDiv((cur - prev) * 100, prev)
                            ELSE 0

(***************************************************************************)
(* main.py: run_current                                                    *)
(*                                                                         *)
(* One invocation after another of the normal mode, each with the date of  *)
(* its start.  snapshots is the list of the dates save_snapshot was called *)
(* with, in order: the files of the data directory are its elements.       *)
(* fetched is the request log of the invocation under way.                 *)
(***************************************************************************)

DaysBack == 6

RECURSIVE FindRecentFrom(_, _, _, _)
\* lines 82-87 from offset on
FindRecentFrom(now, files, offset, last) ==
    IF offset > last THEN None
    ELSE IF strftime(strptime(now) - offset) \in files
         THEN strftime(strptime(now) - offset)
         ELSE FindRecentFrom(now, files, offset + 1, last)

\* the files of the data directory
Files == {snapshots[i] : i \in 1..Len(snapshots)}

FindRecentSnapshotShort(now, files, days_back) ==
    FindRecentFrom(now, files, 0, days_back - 1)

\* lines 76-87: range(0, days_back + 1)
_find_recent_snapshot(now, files, days_back) ==
    FindRecentFrom(now, files, 0, days_back)

\* lines 95-109: a recent snapshot exists and nothing is collected; the
\* history is not empty, so the README is regenerated
SkipCollection ==
    /\ pc = "current"
    /\ _find_recent_snapshot(today, Files, DaysBack) # None
    /\ readme' = TRUE
    /\ result' = 0
    /\ pc' = "done"
    /\ UNCHANGED <<revenue_vars, window_vars, page_vars, feed_vars, chart_vars,
                   num_weeks, all_daily_data, fetched, snapshots>>

\* lines 95-96 and 113
CurrentFetchPricing ==
    /\ pc = "current"
    /\ _find_recent_snapshot(today, Files, DaysBack) = None
    /\ fetched' = Append(fetched, PricingRequest)
    /\ pricing' = fetch_model_pricing(feed)
    /\ pc' = "current_rankings"
    /\ UNCHANGED <<rankings, activities, report, window_vars, page_vars,
                   feed_vars, chart_vars, num_weeks, all_daily_data, snapshots, readme, result>>

\* lines 95-96 and 113: the request fails and the exception ends the run
CurrentFetchPricingFails ==
    /\ pc = "current"
    /\ _find_recent_snapshot(today, Files, DaysBack) = None
    /\ fetched' = Append(fetched, PricingRequest)
    /\ pc' = "raised"
    /\ UNCHANGED <<revenue_vars, window_vars, page_vars, feed_vars, chart_vars,
                   num_weeks, all_daily_data, snapshots, readme, result>>

\* the leaderboards scrape_rankings returns: none, one model, two models
CurrentRankings ==
    {<<>>} \cup {rs \in RankingsUpTo(MaxModels) :
                    \A i, j \in 1..Len(rs) : i # j => rs[i].slug # rs[j].slug}

\* lines 117-121
CurrentScrapeRankings ==
    /\ pc = "current_rankings"
    /\ fetched' = Append(fetched, RankingsRequest)
    /\ \E rs \in CurrentRankings :
          /\ rankings' = rs
          /\ IF rs = <<>>
             THEN result' = 1 /\ pc' = "done"
             ELSE result' = result /\ pc' = "current_activities"
    /\ UNCHANGED <<activities, pricing, report, window_vars, page_vars,
                   feed_vars, chart_vars, num_weeks, all_daily_data, snapshots, readme>>

\* line 125: one request for each ranked model
CurrentScrapeActivities ==
    /\ pc = "current_activities"
    /\ fetched' = fetched \o [i \in 1..Len(rankings) |-> ModelRequest(rankings[i].slug)]
    /\ activities' \in [{rankings[i].slug : i \in 1..Len(rankings)} -> ActsWide]
    /\ pc' = "current_save"
    /\ UNCHANGED <<rankings, pricing, report, window_vars, page_vars,
                   feed_vars, chart_vars, num_weeks, all_daily_data, snapshots, readme, result>>

\* lines 134-152
CurrentSaveSnapshot ==
    /\ pc = "current_save"
    /\ report' = calculate_revenue(rankings, activities, pricing)
    /\ snapshots' = Append(snapshots, today)
    /\ readme' = TRUE
    /\ result' = 0
    /\ pc' = "done"
    /\ UNCHANGED <<rankings, activities, pricing, window_vars, page_vars,
                   feed_vars, chart_vars, num_weeks, all_daily_data, fetched>>

MaxRunDays == 15    \* days between the first and the last invocation
MaxPause == 7       \* most days between one invocation and the next

FirstRunDay == Date(2024, 2, 24)

\* lines 66-72: the next invocation, on the same or a later date
NextInvocation ==
    /\ pc \in {"done", "raised"}
    /\ \E pause \in 0..MaxPause :
          /\ strptime(today) + pause <= strptime(FirstRunDay) + MaxRunDays
          /\ today' = strftime(strptime(today) + pause)
    /\ pc' = "current"
    /\ fetched' = <<>>
    /\ result' = None
    /\ rankings' = <<>> /\ activities' = <<>> /\ pricing' = <<>> /\ report' = None
    /\ UNCHANGED <<daily_data, end_date, days, skip_partial, window, page_vars,
                   feed_vars, chart_vars, num_weeks, all_daily_data, snapshots, readme>>

InitCurrent ==
    /\ pc = "current"
    /\ today = FirstRunDay
    /\ feed \in BackfillFeeds
    /\ query = <<>> /\ found = None
    /\ num_weeks = 0
    /\ all_daily_data = <<>>
    /\ fetched = <<>>
    /\ snapshots = <<>>
    /\ readme = FALSE
    /\ result = None
    /\ NoRevenue /\ NoPage /\ NoChart
    /\ daily_data = <<>> /\ end_date = None /\ days = 0
    /\ skip_partial = FALSE /\ window = None

NextCurrent ==
    \/ SkipCollection
    \/ CurrentFetchPricing
    \/ CurrentFetchPricingFails
    \/ CurrentScrapeRankings
    \/ CurrentScrapeActivities
    \/ CurrentSaveSnapshot
    \/ NextInvocation

SpecCurrent == InitCurrent /\ [][NextCurrent]_vars

(***************************************************************************)
(* Properties of run_current                                               *)
(***************************************************************************)

\* the snapshots dated within today-6..today
RecentSnapshots ==
    {i \in 1..Len(snapshots) :
        /\ strptime(snapshots[i]) <= strptime(today)
        /\ strptime(snapshots[i]) >= strptime(today) - 6}

\* C26: an invocation that has fetched something found no snapshot dated
\* within today-6..today, the only such snapshot being the one it has saved
\* itself; hence any two saved snapshots are dated at least 7 days apart,
\* and no snapshot is saved under a date already used.
C26_SnapshotsAWeekApart ==
    /\ fetched # <<>> =>
          \A i \in RecentSnapshots :
              i = Len(snapshots) /\ snapshots[i] = today /\ pc = "done"
    /\ \A i, j \in 1..Len(snapshots) :
          i < j => strptime(snapshots[j]) - strptime(snapshots[i]) >= 7

\* a third snapshot is saved, after invocations that found a recent one and
\* collected nothing
C26_Witness ==
    /\ Len(snapshots) = 3
    /\ pc = "done"
    /\ fetched # <<>>
    /\ snapshots[3] = today

\* an invocation six days after a snapshot ends without a request
C26_WitnessSkipped ==
    /\ pc = "done"
    /\ result = 0
    /\ fetched = <<>>
    /\ Len(snapshots) = 1
    /\ strptime(today) - strptime(snapshots[1]) = 6

(***************************************************************************)
(* Properties of the weeks run_backfill saves                              *)
(***************************************************************************)

\* the target weeks have been selected
TargetsSelected == pc \in {"models", "weeks", "done"} /\ history # <<>>

\* the dates of the chart week that starts on week_start
WeekDates(week_start) == {strftime(strptime(week_start) + k) : k \in 0..6}

\* the sum of the prompt counts of a model page over the dates in S
PromptOver(daily, S) ==
    SumOver([d \in S \cap DOMAIN daily |-> daily[d].prompt], S \cap DOMAIN daily)

\* every target week has started at least 7 days before today
TargetsComplete ==
    \A k \in 1..Len(Targets) :
        strptime(today) - strptime(Targets[k].week_start) >= 7

\* every saved snapshot is dated week_start + 6
SavedUnderWeekEnd ==
    /\ Len(snapshots) <= Len(Targets)
    /\ \A k \in 1..Len(snapshots) :
           strptime(snapshots[k]) = strptime(Targets[k].week_start) + 6

\* the activities of the latest saved week sum the dates of that week
SavedSumsWeekDates ==
    Len(snapshots) > 0 =>
        /\ DOMAIN activities = DOMAIN LatestTarget.models
        /\ \A slug \in DOMAIN activities :
               activities[slug].prompt_tokens
                   = PromptOver(DailyOf(all_daily_data, slug),
                                WeekDates(LatestTarget.week_start))

\* C27: every target week has week_start at least 7 days before today,
\* whatever history the chart gives, and every saved snapshot is dated
\* week_start + 6 and sums exactly the dates week_start..week_start + 6.
C27_OnlyCompleteWeeksSaved ==
    TargetsSelected =>
        /\ TargetsComplete
        /\ SavedUnderWeekEnd
        /\ SavedSumsWeekDates

====
